---- MODULE Spec2Model ----
(***************************************************************************)
(* A model of gptload-rs: the billing store (src/src/billing.rs), the      *)
(* router's selector and circuit breaker (src/src/state.rs) and the proxy  *)
(* request pipeline (src/src/proxy.rs).                                     *)
(*                                                                         *)
(* Every atomic operation of the code (an atomic load, store, fetch_add or *)
(* compare_exchange, a channel send or receive, a critical section of a    *)
(* lock) is one step of the model, so the interleavings TLC explores are   *)
(* those of the threads and tasks of the program.                          *)
(***************************************************************************)
EXTENDS Integers, Sequences, FiniteSets, TLC

(***************************************************************************)
(* Bounds of the model.                                                    *)
(***************************************************************************)
\* Number of threads that call the billing store concurrently.
NCallers == 2
\* i64::MAX is modelled as I64Bound and i64::MIN as -I64Bound - 1.
I64Bound == 8
\* The mpsc channel of the billing store is unbounded; the model stops
\* sending when this many messages wait.
MaxQueue == 3
\* The calls of the billing store that follow the first call of each thread.
MaxCalls == 1

VARIABLES
    \* ---- billing store (billing.rs) ----
    balances,     \* BillingStore.balances: key -> AtomicI64
    persist_tx,   \* the mpsc channel persist_tx / rx: messages in flight
    pending,      \* the persister thread's staging map
    tree,         \* the sled billing tree: key -> persisted balance
    persister,    \* the persister thread: "running" or "exited"
    tx_dropped,   \* TRUE once the BillingStore (the only Sender) is dropped
    bcall,        \* per calling thread: the call in progress
    bal0,         \* the balances loaded at boot (history, for the claims)
    last_set,     \* per key: the balance of the last Set enqueued for it, or
                  \* the balance loaded at boot (history, for the claims)
    \* ---- router (state.rs) and pipeline (proxy.rs) ----
    cfg,          \* RouterState.ban and RouterState.proxy_tokens (fixed at boot)
    env,          \* the inputs requests may carry and upstreams may answer
    slots,        \* the request tasks
    upstreams,    \* RouterSnapshot.upstreams: the upstream ids, in order
    schedule,     \* RouterSnapshot.schedule: indices (from 0) into upstreams
    sched_rr,     \* RouterState.sched_rr, kept modulo the schedule length
    up,           \* per Upstream: cooldown_until_ms, fail_streak, key_rr, keys, models
    ks,           \* per KeyState: cooldown_until_ms, fail_streak
    req,          \* per request task: its position and locals
    clock,        \* what now_ms() returns
    arrivals,     \* requests still to arrive
    consec,       \* per upstream: failures since the last response that was
                  \* not a 5xx (history, for the claims)
    elig,         \* per request task: the upstreams that have been eligible
                  \* since its call of select_for_model began (history)
    outage,       \* per upstream: the latest now + server_error_ms over the
                  \* 5xx responses it has given (history, for the claims)
    \* ---- snapshot mutation (state.rs 986-1126) and the admin API (admin.rs) ----
    upstream_index, \* RouterSnapshot.upstream_index: id -> position (from 0)
    routes,       \* the model routes file: upstream id -> models
    keystore,     \* KeyStore: upstream id -> the keys stored for it
    gen,          \* the number of snapshots built since boot
    rr_mod,       \* sched_rr is kept modulo rr_mod, a common multiple of the
                  \* lengths of the schedules that occur
    ops,          \* the requests the admin API may receive
    admins,       \* the admin request tasks
    adm,          \* per admin task: its position and locals
    configured,   \* per upstream id: the weight it was last configured with
                  \* (history, for the claims)
    routed,       \* per request task: the upstreams of the snapshot its first
                  \* select_for_model loaded (history, for the claims)
    requests_inflight, \* Stats.requests_inflight, an AtomicU64
    \* ---- the request log (state.rs 228-297) ----
    entries,      \* RequestsLog.entries: the recent requests, oldest first
    metrics,      \* RequestsLog.metrics: the buckets of the three windows
    rec,          \* per thread that calls record: its position and its entry
    recs,         \* the threads that call record
    records_left, \* the number of record calls still to come
    log_env,      \* the entries and the limits the calls may carry
    recent_out,   \* the last answer of GET /admin/api/v1/requests
    recorded,     \* every entry pushed, in the order of the pushes (history,
                  \* for the claims)
    \* ---- the model routes file and its API (state.rs 932-984) ----
    route_models, \* ModelRoutesFile.models: model -> the ids that serve it
    routes_out,   \* the last answer of GET /admin/api/v1/models/routes
    last_put,     \* the body of the last save_model_routes that succeeded
                  \* (history, for the claims)
    \* ---- the calls of the key store (storage.rs) ----
    store_call,   \* the last call of add_keys or replace_keys: its arguments,
                  \* the keys stored before it and its result
    \* ---- the threads that call the billing store ----
    calls_left,   \* the number of calls of the billing store that may still
                  \* follow a call that has returned
    \* ---- the task that forwards a response body (proxy.rs 493-557) ----
    sse,          \* its position, the body, the chunks still to come and its
                  \* locals sse_buf and usage
    \* ---- the upstreams override file (state.rs 355-366, 894-898) ----
    upstreams_file, \* data_dir/upstreams.json: <<>> while there is no file, or
                  \* <<the list of upstream configurations written last>>
    picks,        \* the latest selections select_for_model has returned, in
                  \* order, kept while picks.on (history, for the claims)
    call_start    \* by admin task, where noted: its request, the live
                  \* configurations and upstreams.json when the request
                  \* arrived (history, for the claims)

billingVars == <<balances, persist_tx, pending, tree, persister, tx_dropped, bcall, bal0,
                 last_set>>

routerVars == <<cfg, env, slots, upstreams, schedule, sched_rr, up, ks, req, clock, arrivals,
               consec, elig, outage, requests_inflight>>

adminVars == <<upstream_index, routes, keystore, gen, rr_mod, ops, admins, adm, configured>>

vars == <<balances, persist_tx, pending, tree, persister, tx_dropped, bcall, bal0, last_set,
          cfg, env, slots, upstreams, schedule, sched_rr, up, ks, req, clock,
          arrivals, consec, elig, outage,
          upstream_index, routes, keystore, gen, rr_mod, ops, admins, adm, configured,
          routed, requests_inflight,
          entries, metrics, rec, recs, records_left, log_env, recent_out, recorded,
          route_models, routes_out, last_put, store_call, calls_left, sse,
          upstreams_file, picks, call_start>>

logVars == <<entries, metrics, rec, recs, records_left, log_env, recent_out, recorded>>

routeVars == <<route_models, routes_out, last_put>>

\* No selection is recorded.
NoPicks == [on |-> FALSE, log |-> <<>>]

\* The state of the components below the router and the billing store.
auxVars == <<logVars, routeVars, store_call, calls_left, sse, upstreams_file, picks,
            call_start>>

(***************************************************************************)
(* Billing store: src/src/billing.rs                                       *)
(***************************************************************************)
I64Max == I64Bound
I64Min == -I64Bound - 1

\* i64::saturating_add
SaturatingAddI64(a, b) ==
    IF a + b > I64Max THEN I64Max
    ELSE IF a + b < I64Min THEN I64Min
    ELSE a + b

\* The billing keys of the model: "k1" is loaded at boot, "k2" is created later.
BKeys == {"k1", "k2"}
Callers == 1..NCallers
\* Inputs of adjust_balance, create_key and apply_usage.
Deltas == {-3, 2}
CreateBalances == {0, 5}
\* u64 token counts; the last one does not fit an i64.
TokenCounts == {0, 3, I64Max + 1}
BootBalances == {5}

\* pending.len() >= 1024 triggers a flush.
FlushBatch == 1024

IdleCall == [pc |-> "idle", op |-> "none", key |-> "k1", arg |-> 0,
             cur |-> 0, new |-> 0, tries |-> 0,
             some |-> FALSE, val |-> 0, ok |-> FALSE]

BillingInit(b) ==
    /\ tree = ("k1" :> b)
    /\ balances = ("k1" :> b)
    /\ bal0 = ("k1" :> b)
    /\ last_set = ("k1" :> b)
    /\ persist_tx = <<>>
    /\ pending = <<>>
    /\ persister = "running"
    /\ tx_dropped = FALSE
    /\ bcall = [c \in Callers |-> IdleCall]

\* persist_tx.send(PersistUpdate::Set { key, balance }); the result is ignored.
Send(k, b) ==
    IF persister = "running"
    THEN /\ persist_tx' = Append(persist_tx, [key |-> k, balance |-> b])
         /\ last_set' = (k :> b) @@ last_set
    ELSE UNCHANGED <<persist_tx, last_set>>

\* create_key, line 74: map.contains_key(&key)
ContainsKeyMutant(map, k) == k \in DOMAIN bal0

ContainsKey(map, k) == k \in DOMAIN map

\* create_key, lines 70-78: the write-locked section (contains_key, insert).
CreateKeyLocked(c) ==
    /\ bcall[c].pc = "idle"
    /\ ~tx_dropped
    /\ \E k \in BKeys, b \in CreateBalances :
          IF ContainsKey(balances, k)
          THEN /\ bcall' = [bcall EXCEPT ![c] =
                     [@ EXCEPT !.pc = "done", !.op = "create", !.key = k,
                               !.arg = b, !.some = TRUE, !.ok = FALSE]]
               /\ UNCHANGED balances
          ELSE /\ balances' = (k :> b) @@ balances
               /\ bcall' = [bcall EXCEPT ![c] =
                     [@ EXCEPT !.pc = "create_send", !.op = "create", !.key = k,
                               !.arg = b, !.new = b]]
    /\ UNCHANGED <<persist_tx, pending, tree, persister, tx_dropped, bal0>>
    /\ UNCHANGED last_set
    /\ UNCHANGED routerVars
    /\ UNCHANGED <<adminVars, routed>>
    /\ UNCHANGED auxVars

\* create_key, lines 79-82: the send after the lock is dropped.
CreateKeySend(c) ==
    /\ bcall[c].pc = "create_send"
    /\ Len(persist_tx) < MaxQueue
    /\ Send(bcall[c].key, bcall[c].new)
    /\ bcall' = [bcall EXCEPT ![c] = [@ EXCEPT !.pc = "done", !.some = TRUE, !.ok = TRUE]]
    /\ UNCHANGED <<balances, pending, tree, persister, tx_dropped, bal0>>
    /\ UNCHANGED routerVars
    /\ UNCHANGED <<adminVars, routed>>
    /\ UNCHANGED auxVars

\* get_balance: one atomic load under the read lock.
GetBalance(c) ==
    /\ bcall[c].pc = "idle"
    /\ ~tx_dropped
    /\ \E k \in BKeys :
          bcall' = [bcall EXCEPT ![c] =
              [@ EXCEPT !.pc = "done", !.op = "get", !.key = k,
                        !.some = (k \in DOMAIN balances),
                        !.val = IF k \in DOMAIN balances THEN balances[k] ELSE 0]]
    /\ UNCHANGED <<balances, persist_tx, pending, tree, persister, tx_dropped, bal0>>
    /\ UNCHANGED last_set
    /\ UNCHANGED routerVars
    /\ UNCHANGED <<adminVars, routed>>
    /\ UNCHANGED auxVars

\* adjust_balance, lines 91-94: look the key up and load the balance.
AdjustEnter(c, op, k, delta) ==
    IF k \in DOMAIN balances
    THEN bcall' = [bcall EXCEPT ![c] =
             [@ EXCEPT !.pc = "adj_cas", !.op = op, !.key = k, !.arg = delta,
                       !.cur = balances[k], !.tries = 0]]
    ELSE bcall' = [bcall EXCEPT ![c] =
             [@ EXCEPT !.pc = "done", !.op = op, !.key = k, !.arg = delta,
                       !.some = FALSE]]

AdjustLoad(c) ==
    /\ bcall[c].pc = "idle"
    /\ ~tx_dropped
    /\ \E k \in BKeys, d \in Deltas : AdjustEnter(c, "adjust", k, d)
    /\ UNCHANGED <<balances, persist_tx, pending, tree, persister, tx_dropped, bal0>>
    /\ UNCHANGED last_set
    /\ UNCHANGED routerVars
    /\ UNCHANGED <<adminVars, routed>>
    /\ UNCHANGED auxVars

\* The outcome of balance.compare_exchange(cur, new): <<succeeded, value stored>>.
CompareExchangeMutant(stored, cur, new) == <<TRUE, new>>

CompareExchange(stored, cur, new) ==
    IF stored = cur THEN <<TRUE, new>> ELSE <<FALSE, stored>>

\* adjust_balance, lines 95-106: one iteration of the compare-and-swap loop.
AdjustCas(c) ==
    /\ bcall[c].pc = "adj_cas"
    /\ LET k == bcall[c].key
           new_balance == SaturatingAddI64(bcall[c].cur, bcall[c].arg)
           r == CompareExchange(balances[k], bcall[c].cur, new_balance)
       IN  /\ balances' = [balances EXCEPT ![k] = r[2]]
           /\ IF r[1]
              THEN bcall' = [bcall EXCEPT ![c] =
                       [@ EXCEPT !.pc = "adj_send", !.new = new_balance,
                                 !.tries = @ + 1]]
              ELSE bcall' = [bcall EXCEPT ![c] =
                       [@ EXCEPT !.cur = balances[k], !.tries = @ + 1]]
    /\ UNCHANGED <<persist_tx, pending, tree, persister, tx_dropped, bal0>>
    /\ UNCHANGED last_set
    /\ UNCHANGED routerVars
    /\ UNCHANGED <<adminVars, routed>>
    /\ UNCHANGED auxVars

\* adjust_balance, lines 99-103: the send after a successful exchange.
AdjustSend(c) ==
    /\ bcall[c].pc = "adj_send"
    /\ Len(persist_tx) < MaxQueue
    /\ Send(bcall[c].key, bcall[c].new)
    /\ bcall' = [bcall EXCEPT ![c] =
           [@ EXCEPT !.pc = "done", !.some = TRUE, !.val = bcall[c].new]]
    /\ UNCHANGED <<balances, pending, tree, persister, tx_dropped, bal0>>
    /\ UNCHANGED routerVars
    /\ UNCHANGED <<adminVars, routed>>
    /\ UNCHANGED auxVars

\* apply_usage: the conversion, the zero shortcut, then adjust_balance(-delta).
ApplyUsage(c) ==
    /\ bcall[c].pc = "idle"
    /\ ~tx_dropped
    /\ \E k \in BKeys, t \in TokenCounts :
          IF t > I64Max
          THEN bcall' = [bcall EXCEPT ![c] =
                   [@ EXCEPT !.pc = "done", !.op = "usage", !.key = k, !.arg = 0,
                             !.some = FALSE]]
          ELSE IF t = 0
          THEN bcall' = [bcall EXCEPT ![c] =
                   [@ EXCEPT !.pc = "done", !.op = "usage", !.key = k, !.arg = 0,
                             !.some = (k \in DOMAIN balances),
                             !.val = IF k \in DOMAIN balances THEN balances[k] ELSE 0]]
          ELSE AdjustEnter(c, "usage", k, -t)
    /\ UNCHANGED <<balances, persist_tx, pending, tree, persister, tx_dropped, bal0>>
    /\ UNCHANGED last_set
    /\ UNCHANGED routerVars
    /\ UNCHANGED <<adminVars, routed>>
    /\ UNCHANGED auxVars

\* flush_pending: write every staged balance to the tree and empty the map.
FlushPending(t, p) == p @@ t

\* The flush test of the persister loop, line 52.
ShouldFlush(p, elapsed) == Cardinality(DOMAIN p) >= FlushBatch \/ elapsed

\* Persister loop, Ok(msg): stage the message, then the flush test.
PersisterRecv ==
    /\ persister = "running"
    /\ persist_tx # <<>>
    /\ LET msg == Head(persist_tx)
           staged == (msg.key :> msg.balance) @@ pending
       IN  \E elapsed \in BOOLEAN :
              IF ShouldFlush(staged, elapsed)
              THEN tree' = FlushPending(tree, staged) /\ pending' = <<>>
              ELSE pending' = staged /\ UNCHANGED tree
    /\ persist_tx' = Tail(persist_tx)
    /\ UNCHANGED <<balances, persister, tx_dropped, bcall, bal0>>
    /\ UNCHANGED last_set
    /\ UNCHANGED routerVars
    /\ UNCHANGED <<adminVars, routed>>
    /\ UNCHANGED auxVars

\* Persister loop, Err(Timeout): nothing received, then the flush test.
PersisterTimeout ==
    /\ persister = "running"
    /\ persist_tx = <<>>
    /\ ~tx_dropped
    /\ \E elapsed \in BOOLEAN :
          IF ShouldFlush(pending, elapsed)
          THEN tree' = FlushPending(tree, pending) /\ pending' = <<>>
          ELSE UNCHANGED <<tree, pending>>
    /\ UNCHANGED <<balances, persist_tx, persister, tx_dropped, bcall, bal0>>
    /\ UNCHANGED last_set
    /\ UNCHANGED routerVars
    /\ UNCHANGED <<adminVars, routed>>
    /\ UNCHANGED auxVars

\* Persister loop, Err(Disconnected): leave the loop, flush what is staged.
PersisterDisconnected ==
    /\ persister = "running"
    /\ persist_tx = <<>>
    /\ tx_dropped
    /\ tree' = FlushPending(tree, pending)
    /\ pending' = <<>>
    /\ persister' = "exited"
    /\ UNCHANGED <<balances, persist_tx, tx_dropped, bcall, bal0>>
    /\ UNCHANGED last_set
    /\ UNCHANGED routerVars
    /\ UNCHANGED <<adminVars, routed>>
    /\ UNCHANGED auxVars

\* serve_http returns and main drops the RouterState: the BillingStore and
\* with it the only Sender is dropped.
DropStore ==
    /\ ~tx_dropped
    /\ \A c \in Callers : bcall[c].pc \in {"idle", "done"}
    /\ tx_dropped' = TRUE
    /\ UNCHANGED <<balances, persist_tx, pending, tree, persister, bcall, bal0>>
    /\ UNCHANGED last_set
    /\ UNCHANGED routerVars
    /\ UNCHANGED <<adminVars, routed>>
    /\ UNCHANGED auxVars

\* Balances are stored as 8 bytes, little-endian two's complement (line 134).
\* The model's i64 has I64Max - I64Min + 1 values.
I64Card == I64Max - I64Min + 1

RECURSIVE LeBytes(_, _)
\* The n low bytes of the natural number u, lowest first.
LeBytes(u, n) == IF n = 0 THEN <<>> ELSE <<u % 256>> \o LeBytes(u \div 256, n - 1)

RECURSIVE FromLeBytes(_)
FromLeBytes(bytes) ==
    IF bytes = <<>> THEN 0 ELSE Head(bytes) + 256 * FromLeBytes(Tail(bytes))

\* balance.to_le_bytes()
EncodeBalance(b) == LeBytes(IF b < 0 THEN b + I64Card ELSE b, 8)

\* decode_balance, lines 119-127: None (<<>>) unless there are 8 bytes.
DecodeBalance(bytes) ==
    IF Len(bytes) = 8
    THEN LET u == FromLeBytes(bytes) IN <<IF u > I64Max THEN u - I64Card ELSE u>>
    ELSE <<>>

\* The process ends, by a signal or by the return of main (main.rs 29-55):
\* no handler is installed and no thread is joined, so that the persister
\* thread and the calls in progress end where they are.
Kill ==
    /\ persister = "running"
    /\ persister' = "killed"
    /\ tx_dropped' = TRUE
    /\ bcall' = [c \in Callers |->
                    IF bcall[c].pc \in {"idle", "done"} THEN bcall[c]
                    ELSE [bcall[c] EXCEPT !.pc = "killed"]]
    /\ UNCHANGED <<balances, persist_tx, pending, tree, bal0, last_set>>
    /\ UNCHANGED routerVars
    /\ UNCHANGED <<adminVars, routed>>
    /\ UNCHANGED auxVars

\* The process is started again: BillingStore::new, lines 19-38, loads the
\* balances the tree holds and starts a persister.
Restart ==
    /\ persister \in {"exited", "killed"}
    /\ balances' = [k \in {x \in DOMAIN tree : DecodeBalance(EncodeBalance(tree[x])) # <<>>} |->
                       DecodeBalance(EncodeBalance(tree[k]))[1]]
    /\ bal0' = balances'
    /\ last_set' = balances'
    /\ persist_tx' = <<>>
    /\ pending' = <<>>
    /\ persister' = "running"
    /\ tx_dropped' = FALSE
    /\ bcall' = [c \in Callers |->
                    IF bcall[c].pc = "idle" THEN bcall[c] ELSE [bcall[c] EXCEPT !.pc = "gone"]]
    /\ UNCHANGED tree
    /\ UNCHANGED routerVars
    /\ UNCHANGED <<adminVars, routed>>
    /\ UNCHANGED auxVars

BillingNext ==
    \/ \E c \in Callers : CreateKeyLocked(c)
    \/ \E c \in Callers : CreateKeySend(c)
    \/ \E c \in Callers : GetBalance(c)
    \/ \E c \in Callers : AdjustLoad(c)
    \/ \E c \in Callers : AdjustCas(c)
    \/ \E c \in Callers : AdjustSend(c)
    \/ \E c \in Callers : ApplyUsage(c)
    \/ PersisterRecv
    \/ PersisterTimeout
    \/ PersisterDisconnected
    \/ DropStore


(***************************************************************************)
(* Router: selector and circuit breaker (src/src/state.rs)                 *)
(* Pipeline: handle and forward (src/src/proxy.rs)                         *)
(*                                                                         *)
(* The statistics counters (Stats, UpstreamStats, the request log) are     *)
(* written by these handlers and read by none of them; they are not part   *)
(* of this model.                                                          *)
(***************************************************************************)
\* now_ms() runs from 0 to MaxTime.
MaxTime == 1
\* u64::MAX is modelled as U64Bound.
U64Bound == 12
\* Number of requests that arrive in a behaviour.
MaxArrivals == 3

\* const MAX_RETRIES in forward.
MAX_RETRIES == 5
\* self.ban.max_backoff_pow.min(30) in ban_key and ban_upstream.
MaxPowCap == 30

U64Max == U64Bound
UpIds == {"u1", "u2"}
KeyIds == {"a", "b", "c", "d", "e", "f", "g", "h"}

Min(a, b) == IF a <= b THEN a ELSE b

RECURSIVE Pow2(_)
\* 1u64 << n
Pow2(n) == IF n <= 0 THEN 1 ELSE 2 * Pow2(n - 1)

\* u64::saturating_mul and u64::saturating_add
SaturatingMulU64(a, b) == IF a * b > U64Max THEN U64Max ELSE a * b
SaturatingAddU64(a, b) == IF a + b > U64Max THEN U64Max ELSE a + b

\* ban_key / ban_upstream, lines 670-675 and 682-687: the deadline installed
\* for a streak (the value of fail_streak after the fetch_add).
BanUntil(streak, base_ms, now_ms) ==
    LET max_pow == Min(cfg.ban.max_backoff_pow, MaxPowCap)
        pow == Min(streak - 1, max_pow)
        mult == Pow2(pow)
        ban_ms == SaturatingMulU64(base_ms, mult)
    IN  SaturatingAddU64(now_ms, ban_ms)

\* authorize_proxy: proxy_tokens is None when no token is configured.
AuthorizeProxy(token) ==
    IF cfg.proxy_tokens = {} THEN TRUE
    ELSE IF token = <<>> THEN FALSE
    ELSE token[1] \in cfg.proxy_tokens

\* extract_api_key. A header is <<>> when absent, else <<value>>. The value of
\* x-api-key is given trimmed; the value of Authorization is given as its
\* scheme prefix ("Bearer ", "bearer " or "") and the trimmed rest.
ExtractApiKey(x_api_key, authorization) ==
    IF x_api_key # <<>> /\ x_api_key[1] # "" THEN <<x_api_key[1]>>
    ELSE IF authorization = <<>> THEN <<>>
    ELSE LET h == authorization[1] IN
         IF h.scheme = "" /\ h.cred = "" THEN <<>>
         ELSE IF h.cred = ""
              THEN <<IF h.scheme = "Bearer " THEN "Bearer" ELSE "bearer">>
              ELSE <<h.cred>>

\* handle, line 122: the balance test.
BalanceInsufficientMutant(balance) == balance <= 0

BalanceInsufficient(balance) == balance < 0

\* model_exists
ModelExists(model) ==
    \E i \in 1..Len(upstreams) : model \in up[upstreams[i]].models

\* select_key, line 740: the cooldown test of a key.
KeyEligibleMutant(until, now_ms) == until <= now_ms + 1

KeyEligible(until, now_ms) == until <= now_ms

\* select_for_model, line 518: the cooldown test of an upstream.
UpstreamCooling(until, now_ms) == until > now_ms

\* forward, line 372: the retry test.
RetriesRemainMutant(retry_count) == retry_count <= MAX_RETRIES

RetriesRemain(retry_count) == retry_count < MAX_RETRIES

\* http::StatusCode::is_server_error
IsServerError(status) == status >= 500 /\ status <= 599

\* on_upstream_status, lines 624-636: which subject a response bans, and the
\* base of the ban; "none" when the response resets the key's streak.
BanClassMutant(status) ==
    IF status = 429 THEN [subject |-> "key", base |-> cfg.ban.auth_error_ms]
    ELSE IF status = 401 \/ status = 403
    THEN [subject |-> "key", base |-> cfg.ban.rate_limit_ms]
    ELSE IF IsServerError(status)
    THEN [subject |-> "upstream", base |-> cfg.ban.server_error_ms]
    ELSE [subject |-> "none", base |-> 0]

BanClass(status) ==
    IF status = 429 THEN [subject |-> "key", base |-> cfg.ban.rate_limit_ms]
    ELSE IF status = 401 \/ status = 403
    THEN [subject |-> "key", base |-> cfg.ban.auth_error_ms]
    ELSE IF IsServerError(status)
    THEN [subject |-> "upstream", base |-> cfg.ban.server_error_ms]
    ELSE [subject |-> "none", base |-> 0]

EventClassMutant(q) ==
    IF q.outcome = "response" THEN BanClass(q.status)
    ELSE [subject |-> "upstream", base |-> cfg.ban.server_error_ms]

\* The subject and base of the breaker event of request record q:
\* on_upstream_status for a response, on_timeout and on_network_error else.
EventClass(q) ==
    IF q.outcome = "response" THEN BanClass(q.status)
    ELSE [subject |-> "upstream", base |-> cfg.ban.network_error_ms]

\* The headers of a request: X-Proxy-Token, x-api-key and Authorization.
Headers(token, x_api_key, authorization) ==
    [token |-> token, x_api_key |-> x_api_key, authorization |-> authorization]

\* The value of an Authorization header.
Auth(scheme, cred) == <<[scheme |-> scheme, cred |-> cred]>>

\* A HeaderMap is a sequence of <<name, value>> pairs, the names in lower case
\* as the http crate keeps them. HeaderMap::remove drops every value of the
\* name; HeaderMap::insert replaces them by one.
RemoveHeader(headers, name) == SelectSeq(headers, LAMBDA h : h[1] # name)

InsertHeader(headers, name, value) ==
    Append(RemoveHeader(headers, name), <<name, value>>)

\* parts.headers of a request that came with the headers h and the further
\* headers extras.
ClientHeaders(h, extras) ==
    (IF h.token = <<>> THEN <<>> ELSE << <<"x-proxy-token", h.token[1]>> >>)
    \o (IF h.x_api_key = <<>> THEN <<>> ELSE << <<"x-api-key", h.x_api_key[1]>> >>)
    \o (IF h.authorization = <<>> THEN <<>>
        ELSE << <<"authorization",
                  h.authorization[1].scheme \o h.authorization[1].cred>> >>)
    \o extras

\* sanitize_hop_headers (state.rs 787-801): the names it removes.
HopHeaders ==
    {"connection", "host", "proxy-connection", "proxy-authenticate",
     "proxy-authorization", "te", "trailer", "transfer-encoding", "upgrade",
     "x-proxy-token", "x-admin-token"}

SanitizeHopHeadersMutant(headers) ==
    SelectSeq(headers, LAMBDA h : h[1] \notin HopHeaders \ {"x-admin-token"})

SanitizeHopHeaders(headers) == SelectSeq(headers, LAMBDA h : h[1] \notin HopHeaders)

\* A request body that is a JSON object, as far as forward reads it: the
\* member stream (<<>> when absent) and the member stream_options: "absent",
\* "not_object", "empty" (an object without include_usage), or the value of
\* its include_usage, "true" or "false".
Json(stream, stream_options) == [stream |-> stream, stream_options |-> stream_options]

\* serde_json::to_vec: compact, the members in the order of their names.
Encode(v) ==
    LET s == IF v.stream = <<>> THEN ""
             ELSE IF v.stream[1] THEN "\"stream\":true" ELSE "\"stream\":false"
        o == CASE v.stream_options = "absent" -> ""
               [] v.stream_options = "not_object" -> "\"stream_options\":0"
               [] v.stream_options = "empty" -> "\"stream_options\":{}"
               [] v.stream_options = "true" ->
                      "\"stream_options\":{\"include_usage\":true}"
               [] v.stream_options = "false" ->
                      "\"stream_options\":{\"include_usage\":false}"
    IN  "{" \o s \o (IF s # "" /\ o # "" THEN "," ELSE "") \o o \o "}"

\* What a client sends below its headers: whether the path is
\* /v1/chat/completions, and the body, which parse_request_json reads as the
\* JSON value json (<<>> when it is none).
Payload(chat, json) ==
    [chat |-> chat, json |-> json,
     bytes |-> IF json = <<>> THEN "raw" ELSE Encode(json[1])]

\* ensure_stream_usage (proxy.rs 635-664): what it returns and the value it
\* leaves in v.
EnsureStreamUsage(v) ==
    IF v.stream # <<TRUE>> THEN [changed |-> FALSE, json |-> v]
    ELSE IF v.stream_options = "not_object" THEN [changed |-> FALSE, json |-> v]
    ELSE IF v.stream_options \in {"absent", "empty", "true"}
    THEN [changed |-> FALSE, json |-> [v EXCEPT !.stream_options = "true"]]
    ELSE [changed |-> TRUE, json |-> [v EXCEPT !.stream_options = "true"]]

\* should_inject_usage (state.rs 442-447); usage_inject_upstreams is None
\* (<<>>) or the set of ids.
ShouldInjectUsage(upstream_id) ==
    /\ cfg.usage_inject_upstreams # <<>>
    /\ upstream_id \in cfg.usage_inject_upstreams[1]

\* No request has been built.
NoRequest == [headers |-> <<>>, body |-> "", upstream |-> "", key |-> ""]

\* All the inputs a request may carry and all an upstream may answer.
AllInputs ==
    [headers |->
        {Headers(<<"t1">>, <<"k1">>, <<>>),
         Headers(<<>>, <<"k1">>, <<>>),
         Headers(<<"bad">>, <<"k1">>, <<>>),
         Headers(<<"bad">>, <<>>, <<>>),
         Headers(<<"t1">>, <<>>, <<>>),
         Headers(<<"t1">>, <<"">>, <<>>),
         Headers(<<"t1">>, <<"">>, Auth("Bearer ", "k1")),
         Headers(<<"t1">>, <<"k1">>, Auth("bearer ", "kx")),
         Headers(<<"t1">>, <<>>, Auth("bearer ", "kx")),
         Headers(<<"t1">>, <<>>, Auth("Bearer ", "")),
         Headers(<<"t1">>, <<>>, Auth("", ""))},
     bodies |-> {"ok", "too_large", "read_error"},
     models |-> {<<>>, <<"m">>, <<"m2">>, <<"mx">>},
     statuses |-> {200, 401, 403, 404, 429, 503},
     outcomes |-> {"response", "network_error", "timeout"},
     usages |-> {<<>>, <<0>>, <<5>>},
     extras |-> {<<>>},
     payloads |-> {Payload(FALSE, <<>>)}]

\* Authorized requests for model m whose responses carry no usage.
PlainInputs ==
    [headers |-> {Headers(<<"t1">>, <<"k1">>, <<>>)},
     bodies |-> {"ok"},
     models |-> {<<"m">>},
     statuses |-> {200, 429, 503},
     outcomes |-> {"response", "timeout"},
     usages |-> {<<>>},
     extras |-> {<<>>},
     payloads |-> {Payload(FALSE, <<>>)}]

\* No snapshot is held.
NoSnapshot == [upstreams |-> <<>>, schedule |-> <<>>]

\* self.snapshot.load_full(), as far as select_for_model reads it.
LoadSnapshot == [upstreams |-> upstreams, schedule |-> schedule]

IdleReq ==
    [pc |-> "idle", token |-> <<>>, x_api_key |-> <<>>, authorization |-> <<>>,
     billing_key |-> "", now |-> 0, model |-> "", sel_i |-> 0, cand |-> "u1",
     sel_u |-> "u1", sel_k |-> "a", retry_count |-> 0, attempts |-> 0,
     outcome |-> "none", status |-> 0, streak |-> 0,
     resp |-> 0, code |-> "", snap |-> NoSnapshot, body |-> "none", usage |-> <<>>,
     headers |-> <<>>, chat |-> FALSE, req_json |-> <<>>, body_bytes |-> "",
     injected |-> FALSE, out_req |-> NoRequest]

\* The request is over: what is kept is the response the caller received.
Done(status, code) == [IdleReq EXCEPT !.pc = "done", !.resp = status, !.code = code]

\* select_for_model is running for request record q.
InCall(q) == q.pc \in {"sel", "sel_key"}

\* The upstreams select_for_model may return for request record q when the
\* upstreams are upv and the keys ksv: lines 514-520 and 740.
Eligible(upv, ksv, q) ==
    {u \in DOMAIN upv :
        /\ \E i \in 1..Len(upstreams) : upstreams[i] = u
        /\ q.model \in upv[u].models
        /\ ~UpstreamCooling(upv[u].cooldown_until_ms, q.now)
        /\ \E j \in 1..Len(upv[u].keys) :
              ksv[upv[u].keys[j]].cooldown_until_ms <= q.now}

\* The history elig after a step.
Track ==
    [r \in slots |->
        IF ~InCall(req'[r]) THEN {}
        ELSE IF ~InCall(req[r]) THEN Eligible(up', ks', req'[r])
        ELSE elig[r] \cap Eligible(up', ks', req'[r])]

\* The history outage after a step: the step that ends the breaker event of
\* a 5xx response moves the upstream's deadline.
TrackOutage ==
    [u \in DOMAIN outage |->
        IF \E r \in slots :
              /\ req[r].pc = "store" /\ req'[r].pc # "store"
              /\ req[r].outcome = "response" /\ IsServerError(req[r].status)
              /\ req[r].sel_u = u
              /\ req[r].now + cfg.ban.server_error_ms > outage[u]
        THEN CHOOSE d \in 0..(MaxTime + cfg.ban.server_error_ms) :
                \E r \in slots : req[r].pc = "store" /\ req'[r].pc # "store"
                                  /\ d = req[r].now + cfg.ban.server_error_ms
        ELSE outage[u]]

\* fetch_add(1) and fetch_sub(1) on an AtomicU64: they wrap.
FetchAdd(x) == (x + 1) % (U64Max + 1)
FetchSub(x) == (x - 1) % (U64Max + 1)

\* The request is between the call of forward and its return.
InForward(q) == q.pc \notin {"idle", "handle", "tee", "done"}

\* handle, line 143: requests_inflight is incremented when the checks of the
\* request have passed; line 179: it is decremented when forward has returned.
CountStep(r) ==
    IF req[r].pc = "handle" /\ req'[r].pc = "forward"
    THEN FetchAdd(requests_inflight)
    ELSE IF InForward(req[r]) /\ ~InForward(req'[r])
    THEN FetchSub(requests_inflight)
    ELSE requests_inflight

\* A request arrives with its headers, its path and its body.
Arrive(r) ==
    /\ req[r].pc \in {"idle", "done"}
    /\ arrivals > 0
    /\ arrivals' = arrivals - 1
    /\ \E h \in env.headers, x \in env.extras, p \in env.payloads :
          req' = [req EXCEPT ![r] =
              [IdleReq EXCEPT !.pc = "handle", !.token = h.token,
                              !.x_api_key = h.x_api_key,
                              !.authorization = h.authorization,
                              !.headers = ClientHeaders(h, x),
                              !.chat = p.chat, !.req_json = p.json,
                              !.body_bytes = p.bytes]]
    /\ UNCHANGED <<cfg, env, slots, upstreams, schedule, sched_rr, up, ks, clock, consec>>
    /\ elig' = Track
    /\ requests_inflight' = CountStep(r)
    /\ outage' = TrackOutage
    /\ UNCHANGED <<adminVars, routed>>
    /\ UNCHANGED billingVars
    /\ UNCHANGED auxVars

\* handle, lines 58-146: the proxy token, the billing key, its balance; then
\* the request's time is taken.
Handle(r) ==
    /\ req[r].pc = "handle"
    /\ LET key == ExtractApiKey(req[r].x_api_key, req[r].authorization)
       IN  IF ~AuthorizeProxy(req[r].token)
           THEN req' = [req EXCEPT ![r] = Done(401, "proxy_unauthorized")]
           ELSE IF key = <<>>
           THEN req' = [req EXCEPT ![r] = Done(401, "api_key_required")]
           ELSE IF key[1] \notin DOMAIN balances
           THEN req' = [req EXCEPT ![r] = Done(401, "api_key_invalid")]
           ELSE IF BalanceInsufficient(balances[key[1]])
           THEN req' = [req EXCEPT ![r] = Done(401, "balance_insufficient")]
           ELSE req' = [req EXCEPT ![r] =
                    [IdleReq EXCEPT !.pc = "forward", !.now = clock,
                                    !.billing_key = key[1],
                                    !.headers = req[r].headers,
                                    !.chat = req[r].chat,
                                    !.req_json = req[r].req_json,
                                    !.body_bytes = req[r].body_bytes]]
    /\ UNCHANGED <<cfg, env, slots, upstreams, schedule, sched_rr, up, ks, clock,
                   arrivals, consec>>
    /\ elig' = Track
    /\ requests_inflight' = CountStep(r)
    /\ outage' = TrackOutage
    /\ UNCHANGED <<adminVars, routed>>
    /\ UNCHANGED billingVars
    /\ UNCHANGED auxVars

\* forward, lines 196-285: the body is read, the model extracted and looked
\* up; then select_for_model starts.
Forward(r) ==
    /\ req[r].pc = "forward"
    /\ \E body \in env.bodies, model \in env.models :
          IF body = "too_large"
          THEN req' = [req EXCEPT ![r] = Done(413, "body_too_large")]
          ELSE IF body = "read_error"
          THEN req' = [req EXCEPT ![r] = Done(502, "body_read_error")]
          ELSE IF model = <<>>
          THEN req' = [req EXCEPT ![r] = Done(400, "model_required")]
          ELSE IF ~ModelExists(model[1])
          THEN req' = [req EXCEPT ![r] = Done(404, "model_not_found")]
          ELSE req' = [req EXCEPT ![r] =
                   [@ EXCEPT !.pc = "sel", !.model = model[1], !.sel_i = 0]]
    /\ UNCHANGED <<cfg, env, slots, upstreams, schedule, sched_rr, up, ks, clock,
                   arrivals, consec>>
    /\ elig' = Track
    /\ requests_inflight' = CountStep(r)
    /\ outage' = TrackOutage
    /\ UNCHANGED <<adminVars, routed>>
    /\ UNCHANGED billingVars
    /\ UNCHANGED auxVars

\* proxy_upstream_response: the upstream's response goes to the caller and the
\* task that forwards its body is spawned.
Respond(q) ==
    [IdleReq EXCEPT !.pc = "tee", !.resp = q.status, !.billing_key = q.billing_key,
                    !.body = "reading"]

\* select_for_model returned None: forward, lines 287-294 (first selection)
\* and lines 375-389 (a retry: the 429 response is returned).
SelectedNone(q) ==
    IF q.attempts = 0 THEN Done(503, "model_unavailable") ELSE Respond(q)

\* A slot of the schedule gave nothing: the next iteration of the for loop of
\* select_for_model, or None after sched_len of them.
SlotFailed(q) ==
    IF q.sel_i + 1 >= Len(q.snap.schedule)
    THEN SelectedNone(q)
    ELSE [q EXCEPT !.pc = "sel", !.sel_i = @ + 1]

\* select_for_model, lines 502-520: one iteration up to the call of select_key.
\* The first iteration follows the load of the snapshot (line 502), which the
\* call keeps until it returns.
SelectSlot(r) ==
    /\ req[r].pc = "sel"
    /\ LET snap == IF req[r].sel_i = 0 THEN LoadSnapshot ELSE req[r].snap
           q == [req[r] EXCEPT !.snap = snap]
           sched_len == Len(snap.schedule)
       IN  /\ routed' = IF q.sel_i = 0 /\ q.attempts = 0
                         THEN [routed EXCEPT ![r] =
                                  {snap.upstreams[i] : i \in 1..Len(snap.upstreams)}]
                         ELSE routed
           /\ IF sched_len = 0
              THEN /\ req' = [req EXCEPT ![r] = SelectedNone(q)]
                   /\ UNCHANGED sched_rr
              ELSE LET rr == sched_rr
                       u_idx == snap.schedule[(rr % sched_len) + 1]
                       u == snap.upstreams[u_idx + 1]
                       u_until == up[u].cooldown_until_ms
                   IN  /\ sched_rr' = (rr + 1) % rr_mod
                       /\ IF q.model \notin up[u].models
                          THEN req' = [req EXCEPT ![r] = SlotFailed(q)]
                          ELSE IF UpstreamCooling(u_until, q.now)
                          THEN req' = [req EXCEPT ![r] = SlotFailed(q)]
                          ELSE req' = [req EXCEPT ![r] =
                                   [q EXCEPT !.pc = "sel_key", !.cand = u]]
    /\ UNCHANGED <<cfg, env, slots, upstreams, schedule, up, ks, clock, arrivals, consec>>
    /\ elig' = Track
    /\ requests_inflight' = CountStep(r)
    /\ outage' = TrackOutage
    /\ UNCHANGED adminVars
    /\ UNCHANGED billingVars
    /\ UNCHANGED auxVars

RECURSIVE ScanKeys(_, _, _, _)
\* select_key, lines 736-744: the first key from start whose cooldown has
\* elapsed, or "none".
ScanKeys(keys, start, i, now_ms) ==
    IF i >= Len(keys) THEN "none"
    ELSE LET k == keys[((start + i) % Len(keys)) + 1] IN
         IF KeyEligible(ks[k].cooldown_until_ms, now_ms) THEN k
         ELSE ScanKeys(keys, start, i + 1, now_ms)

\* forward, lines 297-309, after the first selection: the body is encoded
\* again when usage is to be injected and ensure_stream_usage changed the JSON.
\* A retry keeps what the first selection left.
InjectUsage(q, u) ==
    LET asked == /\ q.req_json # <<>>
                 /\ q.req_json[1].stream = <<TRUE>>
                 /\ q.chat
                 /\ ShouldInjectUsage(up[u].id)
        e == EnsureStreamUsage(q.req_json[1])
    IN  IF q.attempts # 0 THEN q
        ELSE IF ~asked THEN q
        ELSE IF e.changed
        THEN [q EXCEPT !.req_json = <<e.json>>, !.body_bytes = Encode(e.json),
                       !.injected = TRUE]
        ELSE [q EXCEPT !.req_json = <<e.json>>]

\* forward, lines 316-361: the request of one attempt, for the upstream u and
\* its key k.
BuildRequest(q, u, k) ==
    LET clean == SanitizeHopHeaders(q.headers)
        auth == InsertHeader(RemoveHeader(clean, "authorization"),
                             "authorization", ks[k].auth_header)
        sized == IF q.injected
                 THEN InsertHeader(RemoveHeader(auth, "content-length"),
                                   "content-length", ToString(Len(q.body_bytes)))
                 ELSE auth
    IN  [headers |-> sized, body |-> q.body_bytes, upstream |-> u, key |-> k]

\* Every upstream of the snapshot snap serves the model, is out of cooldown
\* and holds a credential out of cooldown at now_ms.
AllEligible(snap, model, now_ms) ==
    \A i \in 1..Len(snap.upstreams) :
       LET x == up[snap.upstreams[i]] IN
       /\ model \in x.models
       /\ ~UpstreamCooling(x.cooldown_until_ms, now_ms)
       /\ \E j \in 1..Len(x.keys) : KeyEligible(ks[x.keys[j]].cooldown_until_ms, now_ms)

\* The history of the selections once the call of request r returns u: the
\* upstream, the slots the call has advanced the cursor by, and whether every
\* upstream of its snapshot was eligible. The history keeps the latest
\* selections, as many as the schedule of the call is long.
Picked(r, u) ==
    IF ~picks.on THEN picks
    ELSE LET log == Append(picks.log,
                           [u |-> u, slots |-> req[r].sel_i + 1,
                            ok |-> AllEligible(req[r].snap, req[r].model, req[r].now)])
             n == Len(req[r].snap.schedule)
         IN  [picks EXCEPT !.log = IF Len(log) > n
                                   THEN SubSeq(log, Len(log) - n + 1, Len(log))
                                   ELSE log]

\* select_key, then lines 521-528 of select_for_model and the dispatch of the
\* request built for the selected credential (forward, lines 297-364).
SelectKey(r) ==
    /\ req[r].pc = "sel_key"
    /\ LET u == req[r].cand
           keys == up[u].keys
           n == Len(keys)
       IN  IF n = 0
           THEN /\ req' = [req EXCEPT ![r] = SlotFailed(@)]
                /\ UNCHANGED <<up, picks>>
           ELSE LET start == up[u].key_rr
                    k == ScanKeys(keys, start, 0, req[r].now)
                IN  /\ up' = [up EXCEPT ![u].key_rr = (start + 1) % n]
                    /\ picks' = IF k = "none" THEN picks ELSE Picked(r, u)
                    /\ IF k = "none"
                       THEN req' = [req EXCEPT ![r] = SlotFailed(@)]
                       ELSE req' = [req EXCEPT ![r] =
                                [InjectUsage(@, u) EXCEPT
                                          !.pc = "await", !.sel_u = u, !.sel_k = k,
                                          !.snap = NoSnapshot,
                                          !.retry_count = IF req[r].attempts = 0 THEN 0
                                                          ELSE @ + 1,
                                          !.attempts = @ + 1,
                                          !.out_req = BuildRequest(InjectUsage(req[r], u),
                                                                   u, k)]]
    /\ UNCHANGED <<cfg, env, slots, upstreams, schedule, sched_rr, ks, clock,
                   arrivals, consec>>
    /\ elig' = Track
    /\ requests_inflight' = CountStep(r)
    /\ outage' = TrackOutage
    /\ UNCHANGED <<adminVars, routed>>
    /\ UNCHANGED billingVars
    /\ UNCHANGED <<logVars, routeVars, store_call, calls_left, sse, upstreams_file,
                   call_start>>

\* The outcome of client.request under the timeout: forward, lines 364-366.
UpstreamOutcome(r) ==
    /\ req[r].pc = "await"
    /\ \/ \E s \in env.statuses :
             req' = [req EXCEPT ![r] =
                 [@ EXCEPT !.outcome = "response", !.status = s, !.pc = "reset_streak"]]
       \/ \E o \in env.outcomes \ {"response"} :
             req' = [req EXCEPT ![r] =
                 [@ EXCEPT !.outcome = o, !.status = 0, !.pc = "classify"]]
    /\ UNCHANGED <<cfg, env, slots, upstreams, schedule, sched_rr, up, ks, clock,
                   arrivals, consec>>
    /\ elig' = Track
    /\ requests_inflight' = CountStep(r)
    /\ outage' = TrackOutage
    /\ UNCHANGED <<adminVars, routed>>
    /\ UNCHANGED billingVars
    /\ UNCHANGED auxVars

\* on_upstream_status, line 615: u.fail_streak.store(0)
ResetUpstreamStreak(r) ==
    /\ req[r].pc = "reset_streak"
    /\ up' = [up EXCEPT ![req[r].sel_u].fail_streak = 0]
    /\ consec' = IF IsServerError(req[r].status) THEN consec
                 ELSE [consec EXCEPT ![req[r].sel_u] = 0]
    /\ req' = [req EXCEPT ![r] = [@ EXCEPT !.pc = "reset_cooldown"]]
    /\ UNCHANGED <<cfg, env, slots, upstreams, schedule, sched_rr, ks, clock, arrivals>>
    /\ elig' = Track
    /\ requests_inflight' = CountStep(r)
    /\ outage' = TrackOutage
    /\ UNCHANGED <<adminVars, routed>>
    /\ UNCHANGED billingVars
    /\ UNCHANGED auxVars

\* on_upstream_status, line 616: u.cooldown_until_ms.store(0)
ResetUpstreamCooldown(r) ==
    /\ req[r].pc = "reset_cooldown"
    /\ up' = [up EXCEPT ![req[r].sel_u].cooldown_until_ms = 0]
    /\ req' = [req EXCEPT ![r] = [@ EXCEPT !.pc = "classify"]]
    /\ UNCHANGED <<cfg, env, slots, upstreams, schedule, sched_rr, ks, clock,
                   arrivals, consec>>
    /\ elig' = Track
    /\ requests_inflight' = CountStep(r)
    /\ outage' = TrackOutage
    /\ UNCHANGED <<adminVars, routed>>
    /\ UNCHANGED billingVars
    /\ UNCHANGED auxVars

\* forward, lines 372-410: what follows the breaker update.
AfterBreaker(q) ==
    IF q.outcome = "network_error" THEN Done(502, "upstream_error")
    ELSE IF q.outcome = "timeout" THEN Done(504, "upstream_timeout")
    ELSE IF q.status = 429 /\ RetriesRemain(q.retry_count)
    THEN [q EXCEPT !.pc = "sel", !.sel_i = 0]
    ELSE Respond(q)

\* on_upstream_status, lines 624-636, on_timeout and on_network_error: the
\* fetch_add of ban_key or ban_upstream (line 669 or 681), or the store of 0
\* to the key's streak (line 635).
Classify(r) ==
    /\ req[r].pc = "classify"
    /\ LET q == req[r]
           c == EventClass(q)
       IN  IF c.subject = "key"
           THEN /\ ks' = [ks EXCEPT ![q.sel_k].fail_streak = @ + 1]
                /\ req' = [req EXCEPT ![r] =
                       [@ EXCEPT !.pc = "store",
                                 !.streak = ks[q.sel_k].fail_streak + 1]]
                /\ UNCHANGED <<up, consec>>
           ELSE IF c.subject = "upstream"
           THEN /\ up' = [up EXCEPT ![q.sel_u].fail_streak = @ + 1]
                /\ consec' = [consec EXCEPT ![q.sel_u] = @ + 1]
                /\ req' = [req EXCEPT ![r] =
                       [@ EXCEPT !.pc = "store",
                                 !.streak = up[q.sel_u].fail_streak + 1]]
                /\ UNCHANGED ks
           ELSE /\ ks' = [ks EXCEPT ![q.sel_k].fail_streak = 0]
                /\ req' = [req EXCEPT ![r] = AfterBreaker(@)]
                /\ UNCHANGED <<up, consec>>
    /\ UNCHANGED <<cfg, env, slots, upstreams, schedule, sched_rr, clock, arrivals>>
    /\ elig' = Track
    /\ requests_inflight' = CountStep(r)
    /\ outage' = TrackOutage
    /\ UNCHANGED <<adminVars, routed>>
    /\ UNCHANGED billingVars
    /\ UNCHANGED auxVars

\* ban_key, line 677, and ban_upstream, line 689: the store of the deadline.
BanStore(r) ==
    /\ req[r].pc = "store"
    /\ LET q == req[r]
           c == EventClass(q)
           until == BanUntil(q.streak, c.base, q.now)
       IN  /\ IF c.subject = "key"
              THEN /\ ks' = [ks EXCEPT ![q.sel_k].cooldown_until_ms = until]
                   /\ UNCHANGED up
              ELSE /\ up' = [up EXCEPT ![q.sel_u].cooldown_until_ms = until]
                   /\ UNCHANGED ks
           /\ req' = [req EXCEPT ![r] = AfterBreaker(@)]
    /\ UNCHANGED <<cfg, env, slots, upstreams, schedule, sched_rr, clock, arrivals, consec>>
    /\ elig' = Track
    /\ requests_inflight' = CountStep(r)
    /\ outage' = TrackOutage
    /\ UNCHANGED <<adminVars, routed>>
    /\ UNCHANGED billingVars
    /\ UNCHANGED auxVars

\* The ways the loop of the task spawned by proxy_upstream_response ends:
\* the body ends (line 500), a chunk is an error (line 541), or the caller
\* is gone and the send of a chunk fails (lines 504-506).
BodyEnds == {"end", "error", "disconnect"}

\* The task spawned by proxy_upstream_response, lines 492-547: the chunks of
\* the body are sent to the caller until the loop ends, and the usage is
\* what was parsed from them (<<>> when none).
TeeBody(r) ==
    /\ req[r].pc = "tee"
    /\ req[r].body = "reading"
    /\ \E e \in BodyEnds, usage \in env.usages :
          req' = [req EXCEPT ![r] = [@ EXCEPT !.body = e, !.usage = usage]]
    /\ UNCHANGED <<cfg, env, slots, upstreams, schedule, sched_rr, up, ks, clock,
                   arrivals, consec>>
    /\ elig' = Track
    /\ requests_inflight' = CountStep(r)
    /\ outage' = TrackOutage
    /\ UNCHANGED <<adminVars, routed>>
    /\ UNCHANGED billingVars
    /\ UNCHANGED auxVars

\* apply_usage debits for response status with the usage usage.
DebitsMutant(status, usage) == status = 200 /\ usage # <<>>

Debits(status, usage) == usage # <<>>

\* The task spawned by proxy_upstream_response, after its loop: lines 549-556.
\* apply_usage is taken as one step here; its steps are those of AdjustLoad,
\* AdjustCas and AdjustSend.
Tee(r) ==
    /\ req[r].pc = "tee"
    /\ req[r].body \in BodyEnds
    /\ LET key == req[r].billing_key
           usage == req[r].usage
       IN  IF ~Debits(req[r].resp, usage) \/ usage[1] = 0 \/ usage[1] > I64Max
           THEN UNCHANGED <<balances, persist_tx, last_set>>
           ELSE LET new_balance == SaturatingAddI64(balances[key], -usage[1]) IN
                /\ balances' = [balances EXCEPT ![key] = new_balance]
                /\ persist_tx' = Append(persist_tx, [key |-> key, balance |-> new_balance])
                /\ last_set' = (key :> new_balance) @@ last_set
    /\ req' = [req EXCEPT ![r] = Done(req[r].resp, "")]
    /\ UNCHANGED <<pending, tree, persister, tx_dropped, bcall, bal0>>
    /\ UNCHANGED <<cfg, env, slots, upstreams, schedule, sched_rr, up, ks, clock,
                   arrivals, consec>>
    /\ elig' = Track
    /\ requests_inflight' = CountStep(r)
    /\ outage' = TrackOutage
    /\ UNCHANGED <<adminVars, routed>>
    /\ UNCHANGED auxVars

\* Time passes.
Tick ==
    /\ clock < MaxTime
    /\ clock' = clock + 1
    /\ UNCHANGED <<cfg, env, slots, upstreams, schedule, sched_rr, up, ks, req,
                   arrivals, consec>>
    /\ elig' = Track
    /\ UNCHANGED requests_inflight
    /\ outage' = TrackOutage
    /\ UNCHANGED <<adminVars, routed>>
    /\ UNCHANGED billingVars
    /\ UNCHANGED auxVars

\* The client disconnects while handle is suspended in forward, at the read
\* of the request body (line 216) or at the round trip to the upstream (line
\* 364): the server drops the future of handle, and no statement after the
\* .await of line 173 runs.
Abort(r) ==
    /\ req[r].pc \in {"forward", "await"}
    /\ req' = [req EXCEPT ![r] = Done(0, "aborted")]
    /\ UNCHANGED <<cfg, env, slots, upstreams, schedule, sched_rr, up, ks, clock,
                   arrivals, consec>>
    /\ elig' = Track
    /\ outage' = TrackOutage
    /\ UNCHANGED requests_inflight
    /\ UNCHANGED <<adminVars, routed>>
    /\ UNCHANGED billingVars
    /\ UNCHANGED auxVars

ProxyNext ==
    \/ \E r \in slots : Arrive(r)
    \/ \E r \in slots : Handle(r)
    \/ \E r \in slots : Forward(r)
    \/ \E r \in slots : SelectSlot(r)
    \/ \E r \in slots : SelectKey(r)
    \/ \E r \in slots : UpstreamOutcome(r)
    \/ \E r \in slots : ResetUpstreamStreak(r)
    \/ \E r \in slots : ResetUpstreamCooldown(r)
    \/ \E r \in slots : Classify(r)
    \/ \E r \in slots : BanStore(r)
    \/ \E r \in slots : TeeBody(r)
    \/ \E r \in slots : Tee(r)
    \/ Tick

\* A fresh Upstream (parse_upstream) with its keys loaded, and a fresh KeyState
\* (build_key_states).
NewUpstream(id, weight, keys, models) ==
    [id |-> id, weight |-> weight, cooldown_until_ms |-> 0, fail_streak |-> 0,
     key_rr |-> 0, keys |-> keys, models |-> models]

NewKeyStateMutant(key) ==
    [cooldown_until_ms |-> 1, fail_streak |-> 0, auth_header |-> "Bearer " \o key]

NewKeyState(key) ==
    [cooldown_until_ms |-> 0, fail_streak |-> 0, auth_header |-> "Bearer " \o key]

\* The characters str::trim removes.
Whitespace == {" ", "\t"}

RECURSIVE TrimKey(_)
\* k.trim() for a credential k (state.rs 853, 1224; admin.rs 964).
TrimKey(k) ==
    IF Len(k) > 0 /\ Head(k) \in Whitespace THEN TrimKey(Tail(k))
    ELSE IF Len(k) > 0 /\ SubSeq(k, Len(k), Len(k)) \in Whitespace
    THEN TrimKey(SubSeq(k, 1, Len(k) - 1))
    ELSE k

\* build_key_states, lines 852-856: the credentials are trimmed and the empty
\* ones skipped; every other one is kept, in order.
KeptKeys(keys) ==
    SelectSeq([i \in 1..Len(keys) |-> TrimKey(keys[i])], LAMBDA k : k # "")

(***************************************************************************)
(* Snapshot mutation: add_upstream, update_upstream, delete_upstream       *)
(* (state.rs 986-1126, 1161-1198) behind the admin API (admin.rs 57-97,    *)
(* 401-476)                                                                *)
(***************************************************************************)

\* MAX_WEIGHT of build_snapshot_from_configs
MAX_WEIGHT == 100

\* No admin request starts once this many snapshots have been built.
MaxBuilds == 2

\* The upstream ids the admin API is called with.
AdminIds == {"u1", "u2", "u3"}

Max(a, b) == IF a >= b THEN a ELSE b

RECURSIVE Ticks(_)
Ticks(g) == IF g = 0 THEN "" ELSE "'" \o Ticks(g - 1)

\* Every build makes new Upstream and KeyState objects (parse_upstream,
\* build_key_states). The object built for a name by the g-th build since
\* boot is called by the name followed by g ticks.
Obj(name, g) == name \o Ticks(g)

Range(f) == {f[i] : i \in DOMAIN f}

RECURSIVE Marks(_)
Marks(n) == IF n = 0 THEN "" ELSE "+" \o Marks(n - 1)

\* The KeyState objects build_key_states makes, in the g-th build, for the
\* credentials keys (state.rs 850-869): one object for each credential kept,
\* in order. A credential that occurs again gets another object, whose name
\* carries one mark for each earlier occurrence.
BuildKeyStates(keys, g) ==
    LET kept == KeptKeys(keys) IN
    [j \in 1..Len(kept) |->
        Obj(kept[j], g) \o Marks(Cardinality({i \in 1..(j - 1) : kept[i] = kept[j]}))]

\* The states of these objects: lines 862-867.
BuiltKeyStates(keys, g) ==
    LET kept == KeptKeys(keys)
        objs == BuildKeyStates(keys, g)
    IN  [k \in Range(objs) |-> NewKeyState(kept[CHOOSE j \in 1..Len(objs) : objs[j] = k])]

\* KeyState.key of the object k, given the states ksv: the credential its
\* auth_header carries after "Bearer " (lines 857-864).
CredentialOf(ksv, k) == SubSeq(ksv[k].auth_header, 8, Len(ksv[k].auth_header))

\* build_snapshot_from_configs, line 1178: a weight is None (<<>>) or Some.
ClampWeightMutant(w) == IF w = <<>> THEN 1 ELSE Min(w[1], MAX_WEIGHT)

ClampWeight(w) == IF w = <<>> THEN 1 ELSE Min(Max(w[1], 1), MAX_WEIGHT)

\* An UpstreamConfig. The base_url is given by whether parse_upstream
\* accepts it.
UpstreamConfig(id, base_url, weight) == [id |-> id, base_url |-> base_url, weight |-> weight]

\* current_upstream_configs, lines 1081-1091. Every Upstream of a snapshot
\* was parsed from its base_url.
CurrentUpstreamConfigs ==
    [i \in 1..Len(upstreams) |->
        UpstreamConfig(up[upstreams[i]].id, "valid", <<up[upstreams[i]].weight>>)]

\* build_snapshot_from_configs, lines 1166-1168: no configuration.
NoUpstreamsMutant(configs) == FALSE

NoUpstreams(configs) == Len(configs) = 0

\* build_snapshot_from_configs bails: no configuration, an id met twice
\* (line 1175), or a base_url parse_upstream rejects (line 1179).
BuildFails(configs) ==
    \/ NoUpstreams(configs)
    \/ \E i, j \in 1..Len(configs) : i # j /\ configs[i].id = configs[j].id
    \/ \E i \in 1..Len(configs) : configs[i].base_url # "valid"

RECURSIVE BuildScheduleMutant(_, _)
BuildScheduleMutant(configs, i) ==
    IF i > Len(configs) THEN <<>>
    ELSE <<i - 1>> \o BuildScheduleMutant(configs, i + 1)

RECURSIVE BuildSchedule(_, _)
\* Lines 1187-1189 over the loop of line 1174: weight times the index of each
\* upstream, from the i-th configuration on.
BuildSchedule(configs, i) ==
    IF i > Len(configs) THEN <<>>
    ELSE [j \in 1..ClampWeight(configs[i].weight) |-> i - 1]
            \o BuildSchedule(configs, i + 1)

\* What build_snapshot_from_configs returns for the g-th build: the three
\* fields of the RouterSnapshot.
BuildSnapshot(configs, g) ==
    [upstreams |-> [i \in 1..Len(configs) |-> Obj(configs[i].id, g)],
     upstream_index |->
        [id \in {configs[i].id : i \in 1..Len(configs)} |->
            (CHOOSE i \in 1..Len(configs) : configs[i].id = id) - 1],
     schedule |-> BuildSchedule(configs, 1)]

\* The key objects build_key_states makes for the keys stored for id.
BuiltKeys(id, g) == BuildKeyStates(keystore[id], g)

\* The models apply_routes_to_upstreams gives the upstream id under the
\* routes file rts: lines 1205-1219.
RoutedModels(rts, id) == IF id \in DOMAIN rts THEN rts[id] ELSE {}

\* The Upstream objects of the g-th build: parse_upstream with the clamped
\* weight, the keys of lines 1183-1185, and the models of replace_upstreams,
\* lines 1072-1074.
BuiltUpstreams(configs, g) ==
    [o \in {Obj(configs[i].id, g) : i \in 1..Len(configs)} |->
        LET c == configs[CHOOSE i \in 1..Len(configs) : Obj(configs[i].id, g) = o]
        IN  NewUpstream(c.id, ClampWeight(c.weight), BuiltKeys(c.id, g),
                        RoutedModels(routes, c.id))]

\* No snapshot has been built.
NoBuilt == [upstreams |-> <<>>, upstream_index |-> <<>>, schedule |-> <<>>]

\* No admin request.
NoOp ==
    [kind |-> "none", id |-> "", base_url |-> "", weight |-> <<>>,
     delete_keys |-> FALSE, token |-> <<>>, body |-> <<>>]

IdleAdm ==
    [pc |-> "idle", op |-> NoOp, list |-> <<>>, built |-> NoBuilt, target |-> <<>>,
     res |-> 0]

\* The admin request is over: what is kept is its kind and its status.
AdmDone(op, status) ==
    [IdleAdm EXCEPT !.op = [NoOp EXCEPT !.kind = op.kind], !.res = status]

\* authorize_admin_header: the header is <<>> when absent.
AuthorizeAdminHeaderMutant(token) == token = <<>> \/ token[1] \in cfg.admin_tokens

AuthorizeAdminHeader(token) == token # <<>> /\ token[1] \in cfg.admin_tokens

\* The objects the request tasks and the admin tasks hold.
HeldUpstreams ==
    UNION {IF req[r].pc \in {"idle", "done", "handle", "forward", "tee"} THEN {}
           ELSE {req[r].cand, req[r].sel_u} \cup Range(req[r].snap.upstreams) :
           r \in slots}
    \cup UNION {Range(adm[a].built.upstreams) \cup Range(adm[a].target) : a \in admins}

HeldKeys ==
    {req[r].sel_k : r \in {x \in slots : req[x].pc \in
                             {"await", "reset_streak", "reset_cooldown", "classify", "store"}}}
    \cup UNION {Range(adm[a].list) : a \in {x \in admins : adm[x].pc = "keys_swap"}}

\* The function f without the arguments outside S.
Restrict(f, S) == [x \in DOMAIN f \cap S |-> f[x]]

\* handle_api, lines 57-69: a request under /admin/api/ arrives; the admin
\* token is checked before the endpoint is looked up.
AdminArrive(a) ==
    /\ adm[a].pc = "idle"
    /\ gen < MaxBuilds
    /\ \E op \in ops :
          IF ~AuthorizeAdminHeader(op.token)
          THEN adm' = [adm EXCEPT ![a] = AdmDone(op, 401)]
          ELSE adm' = [adm EXCEPT ![a] = [IdleAdm EXCEPT !.pc = "load", !.op = op]]
    /\ UNCHANGED <<upstream_index, routes, keystore, gen, rr_mod, ops, admins, configured>>
    /\ UNCHANGED <<routerVars, routed>>
    /\ UNCHANGED billingVars
    /\ UNCHANGED auxVars

\* add_upstream, update_upstream and delete_upstream up to their call of
\* replace_upstreams: lines 987-991, 997-1009 and 1015-1020.
AdminLoad(a) ==
    /\ adm[a].pc = "load"
    /\ adm[a].op.kind \in {"add", "update", "delete"}
    /\ LET op == adm[a].op
           list == CurrentUpstreamConfigs
           found == \E i \in 1..Len(list) : list[i].id = op.id
           next ==
              IF op.kind = "add"
              THEN Append(list, UpstreamConfig(op.id, op.base_url, op.weight))
              ELSE IF op.kind = "update"
              THEN [i \in 1..Len(list) |->
                       IF list[i].id = op.id
                       THEN UpstreamConfig(op.id, op.base_url, op.weight)
                       ELSE list[i]]
              ELSE SelectSeq(list, LAMBDA c : c.id # op.id)
           rejected == IF op.kind = "add" THEN found ELSE ~found
       IN  IF rejected
           THEN adm' = [adm EXCEPT ![a] = AdmDone(op, 400)]
           ELSE adm' = [adm EXCEPT ![a] = [@ EXCEPT !.pc = "build", !.list = next]]
    /\ UNCHANGED <<upstream_index, routes, keystore, gen, rr_mod, ops, admins, configured>>
    /\ UNCHANGED <<routerVars, routed>>
    /\ UNCHANGED billingVars
    /\ UNCHANGED auxVars

\* replace_upstreams, lines 1071-1074: the snapshot is built and the routes
\* file applied to its upstreams.
AdminBuild(a) ==
    /\ adm[a].pc = "build"
    /\ LET configs == adm[a].list
           g == gen + 1
           objs == BuiltUpstreams(configs, g)
           keyobjs == UNION {Range(objs[o].keys) : o \in DOMAIN objs}
       IN  IF BuildFails(configs)
           THEN /\ adm' = [adm EXCEPT ![a] = AdmDone(adm[a].op, 400)]
                /\ UNCHANGED <<gen, up, ks, consec, outage>>
           ELSE /\ gen' = g
                /\ up' = objs @@ up
                /\ ks' = [k \in keyobjs |->
                             LET c == CHOOSE c \in Range(configs) :
                                         k \in Range(BuiltKeys(c.id, g))
                             IN  BuiltKeyStates(keystore[c.id], g)[k]] @@ ks
                /\ consec' = [o \in DOMAIN objs |-> 0] @@ consec
                /\ outage' = [o \in DOMAIN objs |-> 0] @@ outage
                /\ adm' = [adm EXCEPT ![a] =
                       [@ EXCEPT !.pc = "store", !.built = BuildSnapshot(configs, g)]]
    /\ UNCHANGED <<upstream_index, routes, keystore, rr_mod, ops, admins, configured>>
    /\ UNCHANGED <<cfg, env, slots, upstreams, schedule, sched_rr, req, clock, arrivals,
                   elig, routed,
                   requests_inflight>>
    /\ UNCHANGED billingVars
    /\ UNCHANGED auxVars

\* replace_upstreams, lines 1075-1076: the snapshot is stored and the
\* configurations are written to upstreams.json. The objects nothing holds
\* any more are dropped.
AdminStore(a) ==
    /\ adm[a].pc = "store"
    /\ LET built == adm[a].built
           op == adm[a].op
           after == [adm EXCEPT ![a] = [@ EXCEPT !.pc = "cleanup", !.list = <<>>,
                                                !.built = NoBuilt]]
           held == Range(built.upstreams) \cup HeldUpstreams
           heldKeys == HeldKeys \cup
                       UNION {Range(up[o].keys) : o \in held \cap DOMAIN up}
       IN  /\ slots = {} \/ rr_mod % Len(built.schedule) = 0
           /\ upstreams' = built.upstreams
           /\ upstream_index' = built.upstream_index
           /\ schedule' = built.schedule
           /\ adm' = after
           /\ up' = Restrict(up, held)
           /\ ks' = Restrict(ks, heldKeys)
           /\ consec' = Restrict(consec, held)
           /\ outage' = Restrict(outage, held)
           /\ configured' =
                 IF op.kind = "delete" THEN configured
                 ELSE [configured EXCEPT ![op.id] = op.weight]
    /\ UNCHANGED <<routes, keystore, gen, rr_mod, ops, admins>>
    /\ UNCHANGED <<cfg, env, slots, sched_rr, req, clock, arrivals, elig, routed,
                   requests_inflight>>
    /\ UNCHANGED billingVars
    /\ upstreams_file' = <<adm[a].list>>
    /\ UNCHANGED <<logVars, routeVars, store_call, calls_left, sse, picks, call_start>>


\* The models the live upstreams have loaded, by id: build_model_routes,
\* lines 1029-1059 (an upstream without models is left out).
BuildModelRoutes(upv) ==
    [id \in {upv[upstreams[i]].id : i \in {j \in 1..Len(upstreams) :
                                              upv[upstreams[j]].models # {}}} |->
        upv[upstreams[upstream_index[id] + 1]].models]

\* The models map of the file written for the upstreams map rts: each model
\* with the ids that list it, sorted and without duplicates (lines 971-979,
\* 1044-1051 and 1110-1119).
RoutesInverse(rts) ==
    [m \in UNION {rts[id] : id \in DOMAIN rts} |-> {id \in DOMAIN rts : m \in rts[id]}]

\* cleanup_model_routes, lines 1099-1105: the entries of the upstreams map
\* rts whose id the index of the snapshot lacks are removed.
RetainRoutesMutant(rts, index) == rts

RetainRoutes(rts, index) == Restrict(rts, DOMAIN index)

\* replace_upstreams, line 1077: cleanup_model_routes, lines 1093-1125. The
\* routes of the ids the live snapshot lacks are removed from the file; if
\* any was, the file is applied to the live upstreams.
AdminCleanup(a) ==
    /\ adm[a].pc = "cleanup"
    /\ LET op == adm[a].op
           kept == RetainRoutes(routes, upstream_index)
           changed == DOMAIN kept # DOMAIN routes
       IN  /\ routes' = kept
           /\ route_models' = IF changed THEN RoutesInverse(kept) ELSE route_models
           /\ up' = IF ~changed THEN up
                    ELSE [o \in DOMAIN up |->
                             IF o \in Range(upstreams)
                             THEN [up[o] EXCEPT !.models = RoutedModels(kept, up[o].id)]
                             ELSE up[o]]
           /\ adm' = [adm EXCEPT ![a] =
                  IF op.kind = "delete" /\ op.delete_keys
                  THEN [@ EXCEPT !.pc = "delete_keys"]
                  ELSE IF op.kind = "add"
                  THEN [@ EXCEPT !.pc = "refresh", !.res = 200]
                  ELSE AdmDone(op, 200)]
    /\ UNCHANGED <<upstream_index, keystore, gen, rr_mod, ops, admins, configured>>
    /\ UNCHANGED <<cfg, env, slots, upstreams, schedule, sched_rr, ks, req, clock, arrivals,
                   consec, elig, outage, routed, requests_inflight>>
    /\ UNCHANGED billingVars
    /\ UNCHANGED <<logVars, routes_out, last_put, store_call, calls_left, sse, upstreams_file, picks,
                   call_start>>

\* delete_upstream, lines 1022-1025: the keys stored for the id are removed.
AdminDeleteKeys(a) ==
    /\ adm[a].pc = "delete_keys"
    /\ keystore' = [keystore EXCEPT ![adm[a].op.id] = <<>>]
    /\ adm' = [adm EXCEPT ![a] = AdmDone(adm[a].op, 200)]
    /\ UNCHANGED <<upstream_index, routes, gen, rr_mod, ops, admins, configured>>
    /\ UNCHANGED <<routerVars, routed>>
    /\ UNCHANGED billingVars
    /\ UNCHANGED auxVars

\* The task api_add_upstream spawns once the upstream is added (admin.rs
\* 431-434): refresh_missing_models_for_upstream up to the request of
\* fetch_models_for_upstream (state.rs 569-586, 1128-1137).
AdminRefresh(a) ==
    /\ adm[a].pc = "refresh"
    /\ LET op == adm[a].op IN
       IF \/ op.id \in DOMAIN routes
          \/ op.id \notin DOMAIN upstream_index
          \/ Len(up[upstreams[upstream_index[op.id] + 1]].keys) = 0
       THEN adm' = [adm EXCEPT ![a] = AdmDone(op, 200)]
       ELSE adm' = [adm EXCEPT ![a] =
                [@ EXCEPT !.pc = "fetch",
                          !.target = <<upstreams[upstream_index[op.id] + 1]>>]]
    /\ UNCHANGED <<upstream_index, routes, keystore, gen, rr_mod, ops, admins, configured>>
    /\ UNCHANGED <<routerVars, routed>>
    /\ UNCHANGED billingVars
    /\ UNCHANGED auxVars

\* The models an upstream may list.
FetchedModels == {{"m"}}

\* The answer of the upstream to GET /v1/models: refresh_models_for_upstream
\* stores the models (state.rs 604-609) and refresh_models_by_id persists the
\* routes (lines 588, 1061-1068); or the request fails.
AdminFetch(a) ==
    /\ adm[a].pc = "fetch"
    /\ \/ UNCHANGED <<up, routes, route_models>>
       \/ \E models \in FetchedModels :
             LET upv == [up EXCEPT ![adm[a].target[1]].models = models]
                 written == \E i \in 1..Len(upstreams) : upv[upstreams[i]].models # {}
             IN
             /\ up' = upv
             /\ routes' = IF written THEN BuildModelRoutes(upv) ELSE routes
             /\ route_models' = IF written THEN RoutesInverse(BuildModelRoutes(upv))
                                ELSE route_models
    /\ adm' = [adm EXCEPT ![a] = AdmDone(adm[a].op, 200)]
    /\ UNCHANGED <<upstream_index, keystore, gen, rr_mod, ops, admins, configured>>
    /\ UNCHANGED <<cfg, env, slots, upstreams, schedule, sched_rr, ks, req, clock, arrivals,
                   consec, elig, outage, routed, requests_inflight>>
    /\ UNCHANGED billingVars
    /\ UNCHANGED <<logVars, routes_out, last_put, store_call, calls_left, sse, upstreams_file, picks,
                   call_start>>

\* The endpoints that read: api_list_upstreams (admin.rs 506-552) loads the
\* snapshot, api_billing_get_balance (211-223) reads the balance of the key,
\* and a path that matches no endpoint is answered 404 (lines 89-94).
AdminRead(a) ==
    /\ adm[a].pc = "load"
    /\ adm[a].op.kind \in {"list", "balance", "other"}
    /\ LET op == adm[a].op
           status == IF op.kind = "list" THEN 200
                     ELSE IF op.kind = "other" THEN 404
                     ELSE IF op.id \in DOMAIN balances THEN 200 ELSE 404
       IN  adm' = [adm EXCEPT ![a] = AdmDone(op, status)]
    /\ UNCHANGED <<upstream_index, routes, keystore, gen, rr_mod, ops, admins, configured>>
    /\ UNCHANGED <<routerVars, routed>>
    /\ UNCHANGED billingVars
    /\ UNCHANGED auxVars

\* api_billing_create_key, admin.rs 157-209, up to the locked section of
\* create_key: the key is op.id, the balance op.weight or 0.
AdminCreateKey(a) ==
    /\ adm[a].pc = "load"
    /\ adm[a].op.kind = "billing_create"
    /\ LET op == adm[a].op
           balance == IF op.weight = <<>> THEN 0 ELSE op.weight[1]
       IN  IF op.id = ""
           THEN adm' = [adm EXCEPT ![a] = AdmDone(op, 400)] /\ UNCHANGED balances
           ELSE IF ContainsKey(balances, op.id)
           THEN adm' = [adm EXCEPT ![a] = AdmDone(op, 409)] /\ UNCHANGED balances
           ELSE /\ balances' = (op.id :> balance) @@ balances
                /\ adm' = [adm EXCEPT ![a] = [@ EXCEPT !.pc = "create_send"]]
    /\ UNCHANGED <<persist_tx, pending, tree, persister, tx_dropped, bcall, bal0, last_set>>
    /\ UNCHANGED <<upstream_index, routes, keystore, gen, rr_mod, ops, admins, configured>>
    /\ UNCHANGED <<routerVars, routed>>
    /\ UNCHANGED auxVars

\* api_billing_create_key: the send of create_key and the answer.
AdminCreateKeySend(a) ==
    /\ adm[a].pc = "create_send"
    /\ Len(persist_tx) < MaxQueue
    /\ LET op == adm[a].op
       IN  /\ Send(op.id, IF op.weight = <<>> THEN 0 ELSE op.weight[1])
           /\ adm' = [adm EXCEPT ![a] = AdmDone(op, 200)]
    /\ UNCHANGED <<balances, pending, tree, persister, tx_dropped, bcall, bal0>>
    /\ UNCHANGED <<upstream_index, routes, keystore, gen, rr_mod, ops, admins, configured>>
    /\ UNCHANGED <<routerVars, routed>>
    /\ UNCHANGED auxVars

AdminNext ==
    \/ \E a \in admins : AdminArrive(a)
    \/ \E a \in admins : AdminLoad(a)
    \/ \E a \in admins : AdminBuild(a)
    \/ \E a \in admins : AdminStore(a)
    \/ \E a \in admins : AdminCleanup(a)
    \/ \E a \in admins : AdminDeleteKeys(a)
    \/ \E a \in admins : AdminRefresh(a)
    \/ \E a \in admins : AdminFetch(a)

(***************************************************************************)
(* The model routes API: src/src/state.rs 932-984, admin.rs 338-375        *)
(***************************************************************************)
\* A request of the admin API that carries a JSON body.
BodyOp(kind, id, body, token) ==
    [NoOp EXCEPT !.kind = kind, !.id = id, !.body = body, !.token = token]

\* A string of a request body is a sequence of characters.
RECURSIVE TrimStart(_)
TrimStart(w) == IF w # <<>> /\ Head(w) \in Whitespace THEN TrimStart(Tail(w)) ELSE w

RECURSIVE TrimEnd(_)
TrimEnd(w) ==
    IF w # <<>> /\ w[Len(w)] \in Whitespace THEN TrimEnd(SubSeq(w, 1, Len(w) - 1)) ELSE w

\* str::trim
TrimMutant(w) == TrimStart(w)

Trim(w) == TrimEnd(TrimStart(w))

RECURSIVE Str(_)
\* The string of the characters of w.
Str(w) == IF w = <<>> THEN "" ELSE Head(w) \o Str(Tail(w))

\* save_model_routes, lines 953-969: the models of each upstream are trimmed,
\* the empty ones dropped and the others collected in a set, which is then
\* listed in sorted order.
CleanRoutes(body) ==
    [id \in DOMAIN body |->
        {Str(Trim(body[id][i])) : i \in 1..Len(body[id])} \ {""}]

\* save_model_routes, lines 946-951: the snapshot is loaded and the ids of
\* the body are looked up in it.
AdminPutLoad(a) ==
    /\ adm[a].pc = "load"
    /\ adm[a].op.kind = "put_routes"
    /\ LET op == adm[a].op IN
       IF \E id \in DOMAIN op.body : id \notin DOMAIN upstream_index
       THEN adm' = [adm EXCEPT ![a] = AdmDone(op, 400)]
       ELSE adm' = [adm EXCEPT ![a] = [@ EXCEPT !.pc = "put_write", !.target = upstreams]]
    /\ UNCHANGED <<upstream_index, routes, keystore, gen, rr_mod, ops, admins, configured>>
    /\ UNCHANGED <<routerVars, routed>>
    /\ UNCHANGED billingVars
    /\ UNCHANGED auxVars

\* save_model_routes, lines 953-983: the file is written and applied to the
\* upstreams of the snapshot loaded.
AdminPutWrite(a) ==
    /\ adm[a].pc = "put_write"
    /\ LET op == adm[a].op
           clean == CleanRoutes(op.body)
       IN  /\ routes' = clean
           /\ route_models' = RoutesInverse(clean)
           /\ up' = [o \in DOMAIN up |->
                        IF o \in Range(adm[a].target)
                        THEN [up[o] EXCEPT !.models = RoutedModels(clean, up[o].id)]
                        ELSE up[o]]
           /\ last_put' = <<op.body>>
           /\ adm' = [adm EXCEPT ![a] = AdmDone(op, 200)]
    /\ UNCHANGED <<upstream_index, keystore, gen, rr_mod, ops, admins, configured>>
    /\ UNCHANGED <<cfg, env, slots, upstreams, schedule, sched_rr, ks, req, clock, arrivals,
                   consec, elig, outage, routed, requests_inflight>>
    /\ UNCHANGED billingVars
    /\ UNCHANGED <<logVars, routes_out, store_call, calls_left, sse, upstreams_file, picks,
                   call_start>>

\* api_get_model_routes with get_model_routes, lines 932-937: the file is
\* read.
AdminGetRoutes(a) ==
    /\ adm[a].pc = "load"
    /\ adm[a].op.kind = "get_routes"
    /\ routes_out' = [upstreams |-> routes, models |-> route_models]
    /\ adm' = [adm EXCEPT ![a] = AdmDone(adm[a].op, 200)]
    /\ UNCHANGED <<upstream_index, routes, keystore, gen, rr_mod, ops, admins, configured>>
    /\ UNCHANGED <<routerVars, routed>>
    /\ UNCHANGED billingVars
    /\ UNCHANGED <<logVars, route_models, last_put, store_call, calls_left, sse, upstreams_file, picks,
                   call_start>>

RoutesNext ==
    \/ \E a \in admins : AdminArrive(a)
    \/ \E a \in admins : AdminPutLoad(a)
    \/ \E a \in admins : AdminPutWrite(a)
    \/ \E a \in admins : AdminGetRoutes(a)

\* The routes file of boot, and no answer yet.
RoutesIdle ==
    /\ route_models = RoutesInverse(routes)
    /\ routes_out = [upstreams |-> <<>>, models |-> <<>>]
    /\ last_put = <<>>

(***************************************************************************)
(* The key store: src/src/storage.rs                                       *)
(***************************************************************************)
\* The keys in the order of their bytes: a sled tree iterates in this order.
KeyOrder == <<" d", "a", "b", "c", "d", "e", "f", "g", "h">>

\* The tree that holds the keys of the set S, as its iteration lists them.
\* (A key is stored as the bytes of its String and read back with from_utf8,
\* which gives the String again.)
TreeOf(S) == SelectSeq(KeyOrder, LAMBDA k : k \in S)

\* t.clear(), line 71.
TreeClearMutant(t) == t

TreeClear(t) == <<>>

\* t.insert(k.as_bytes(), &[]): <<the tree, whether there was a previous value>>.
TreeInsert(t, k) == <<TreeOf(Range(t) \cup {k}), k \in Range(t)>>

\* add_keys, lines 49-56: the count of one key.
CountInsertMutant(res, prev) == [res EXCEPT !.inserted = @ + 1]

CountInsert(res, prev) ==
    IF prev THEN [res EXCEPT !.existed = @ + 1] ELSE [res EXCEPT !.inserted = @ + 1]

RECURSIVE AddKeysFrom(_, _, _, _)
\* add_keys, lines 47-57: the loop over keys from position i.
AddKeysFrom(t, keys, i, res) ==
    IF i > Len(keys) THEN [res EXCEPT !.tree = t]
    ELSE LET ins == TreeInsert(t, keys[i])
             counted == CountInsert(res, ins[2])
         IN  AddKeysFrom(ins[1], keys, i + 1,
                         IF ins[2] THEN counted
                         ELSE [counted EXCEPT !.inserted_keys = Append(@, keys[i])])

\* add_keys, lines 41-66, on the tree of an upstream.
AddKeys(t, keys) ==
    AddKeysFrom(t, keys, 1,
                [tree |-> t, inserted |-> 0, existed |-> 0, inserted_keys |-> <<>>])

RECURSIVE InsertAll(_, _, _)
InsertAll(t, keys, i) ==
    IF i > Len(keys) THEN t ELSE InsertAll(TreeInsert(t, keys[i])[1], keys, i + 1)

\* replace_keys, lines 69-77, on the tree of an upstream.
ReplaceKeys(t, keys) == InsertAll(TreeClear(t), keys, 1)

\* load_all_keys, lines 91-101: the keys of the tree u:<upstream_id>.
LoadAllKeys(store, upstream_id) == store[upstream_id]

NoStoreCall ==
    [op |-> "none", id |-> "", keys |-> <<>>, before |-> <<>>, inserted |-> 0, existed |-> 0]

\* A call of replace_keys.
StoreReplace ==
    /\ \E id \in DOMAIN keystore, keys \in ops :
          /\ keystore' = [keystore EXCEPT ![id] = ReplaceKeys(@, keys)]
          /\ store_call' = [NoStoreCall EXCEPT !.op = "replace", !.id = id, !.keys = keys,
                                               !.before = keystore[id]]
    /\ UNCHANGED <<upstream_index, routes, gen, rr_mod, ops, admins, adm, configured>>
    /\ UNCHANGED <<billingVars, routerVars, routed, logVars, routeVars, calls_left, sse, upstreams_file, picks,
                   call_start>>

\* A call of add_keys.
StoreAdd ==
    /\ \E id \in DOMAIN keystore, keys \in ops :
          LET res == AddKeys(keystore[id], keys) IN
          /\ keystore' = [keystore EXCEPT ![id] = res.tree]
          /\ store_call' = [op |-> "add", id |-> id, keys |-> keys, before |-> keystore[id],
                            inserted |-> res.inserted, existed |-> res.existed]
    /\ UNCHANGED <<upstream_index, routes, gen, rr_mod, ops, admins, adm, configured>>
    /\ UNCHANGED <<billingVars, routerVars, routed, logVars, routeVars, calls_left, sse, upstreams_file, picks,
                   call_start>>

StoreNext == StoreReplace \/ StoreAdd

(***************************************************************************)
(* The credentials API: src/src/admin.rs 675-869, 917-973                  *)
(***************************************************************************)
\* delete_keys, lines 79-89, on the tree of an upstream.
DeleteKeys(t, keys) ==
    [tree |-> TreeOf(Range(t) \ Range(keys)),
     removed |-> Cardinality(Range(t) \cap Range(keys))]

RECURSIVE DedupeFrom(_, _, _)
\* dedupe_keys, lines 963-971: the loop over keys from position i.
DedupeFrom(keys, i, out) ==
    IF i > Len(keys) THEN out
    ELSE LET k == TrimKey(keys[i]) IN
         DedupeFrom(keys, i + 1,
                    IF k = "" \/ k \in Range(out) THEN out ELSE Append(out, k))

\* dedupe_keys, admin.rs 960-973.
DedupeKeys(keys) == DedupeFrom(keys, 1, <<>>)

\* validate_keys, state.rs 1221-1236, for credentials that are valid header
\* values: one of them at least is not blank.
ValidateKeys(keys) == \E i \in 1..Len(keys) : TrimKey(keys[i]) # ""

\* A request of the credentials API: the body {"keys": keys, "dedupe": dedupe}
\* of parse_keys_body, where dedupe is None (<<>>) or Some. (A text/plain body
\* is the JSON body of its trimmed non-empty lines without dedupe.)
KeysOp(kind, id, keys, dedupe, token) ==
    [NoOp EXCEPT !.kind = kind, !.id = id, !.token = token,
                 !.body = [keys |-> keys, dedupe |-> dedupe]]

\* v.dedupe.unwrap_or(true), line 932.
DedupeFlag(dedupe) == IF dedupe = <<>> THEN TRUE ELSE dedupe[1]

\* The key objects some upstream or some task holds, once the upstream o
\* holds the keys list.
KeysHeld(o, list) ==
    HeldKeys \cup Range(list) \cup UNION {Range(up[x].keys) : x \in DOMAIN up \ {o}}

\* api_add_keys, api_replace_keys and api_delete_keys up to spawn_blocking:
\* lines 716-735, 775-794 and 824-838 (with line 841).
AdminKeysLoad(a) ==
    /\ adm[a].pc = "load"
    /\ adm[a].op.kind \in {"add_keys", "replace_keys", "delete_keys"}
    /\ LET op == adm[a].op
           keys == IF DedupeFlag(op.body.dedupe) THEN DedupeKeys(op.body.keys)
                   ELSE op.body.keys
       IN  IF op.id \notin DOMAIN upstream_index
           THEN adm' = [adm EXCEPT ![a] = AdmDone(op, 404)]
           ELSE IF op.kind = "delete_keys" /\ op.body.keys = <<>>
           THEN adm' = [adm EXCEPT ![a] = AdmDone(op, 400)]
           ELSE IF op.kind # "delete_keys" /\ (keys = <<>> \/ ~ValidateKeys(keys))
           THEN adm' = [adm EXCEPT ![a] = AdmDone(op, 400)]
           ELSE adm' = [adm EXCEPT ![a] =
                    [@ EXCEPT !.pc = "keys_store", !.list = keys,
                              !.target = <<upstreams[upstream_index[op.id] + 1]>>]]
    /\ UNCHANGED <<upstream_index, routes, keystore, gen, rr_mod, ops, admins, configured>>
    /\ UNCHANGED <<routerVars, routed>>
    /\ UNCHANGED billingVars
    /\ UNCHANGED auxVars

\* api_reload_all, lines 676-677: the snapshot is loaded.
AdminReloadLoad(a) ==
    /\ adm[a].pc = "load"
    /\ adm[a].op.kind = "reload"
    /\ adm' = [adm EXCEPT ![a] = [@ EXCEPT !.pc = "keys_store", !.target = upstreams]]
    /\ UNCHANGED <<upstream_index, routes, keystore, gen, rr_mod, ops, admins, configured>>
    /\ UNCHANGED <<routerVars, routed>>
    /\ UNCHANGED billingVars
    /\ UNCHANGED auxVars

\* The call of the key store: add_keys (line 738), replace_keys (797),
\* delete_keys (842) or load_all_keys (686).
AdminKeysStore(a) ==
    /\ adm[a].pc = "keys_store"
    /\ LET op == adm[a].op
           id == up[adm[a].target[1]].id
           keys == adm[a].list
           added == AddKeys(keystore[id], keys)
       IN  /\ keystore' =
                 IF op.kind = "add_keys" THEN [keystore EXCEPT ![id] = added.tree]
                 ELSE IF op.kind = "replace_keys"
                 THEN [keystore EXCEPT ![id] = ReplaceKeys(@, keys)]
                 ELSE IF op.kind = "delete_keys"
                 THEN [keystore EXCEPT ![id] = DeleteKeys(@, keys).tree]
                 ELSE keystore
           /\ adm' = [adm EXCEPT ![a] =
                  [@ EXCEPT !.pc = "keys_build",
                            !.list = IF op.kind = "add_keys" THEN added.inserted_keys
                                     ELSE IF op.kind = "reload"
                                     THEN LoadAllKeys(keystore, id)
                                     ELSE keys]]
    /\ UNCHANGED <<upstream_index, routes, gen, rr_mod, ops, admins, configured>>
    /\ UNCHANGED <<routerVars, routed>>
    /\ UNCHANGED billingVars
    /\ UNCHANGED auxVars

\* The list the handler is about to store. api_add_keys, lines 743-747: the
\* key states of the inserted credentials are built and appended to the list
\* loaded from the upstream. api_replace_keys, line 798, and api_reload_all,
\* line 687: the key states of the credentials are built. api_delete_keys,
\* lines 845-852: the list of the upstream is loaded and filtered.
AdminKeysBuild(a) ==
    /\ adm[a].pc = "keys_build"
    /\ LET op == adm[a].op
           keys == adm[a].list
           old == up[adm[a].target[1]].keys
           g == gen + 1
       IN  IF op.kind = "delete_keys"
           THEN /\ adm' = [adm EXCEPT ![a] =
                       [@ EXCEPT !.pc = "keys_swap",
                                 !.list = SelectSeq(old, LAMBDA k :
                                              CredentialOf(ks, k) \notin Range(keys))]]
                /\ UNCHANGED <<gen, ks>>
           ELSE /\ gen' = g
                /\ ks' = BuiltKeyStates(keys, g) @@ ks
                /\ adm' = [adm EXCEPT ![a] =
                       [@ EXCEPT !.pc = "keys_swap",
                                 !.list = IF op.kind = "add_keys"
                                          THEN old \o BuildKeyStates(keys, g)
                                          ELSE BuildKeyStates(keys, g)]]
    /\ UNCHANGED <<upstream_index, routes, keystore, rr_mod, ops, admins, configured>>
    /\ UNCHANGED <<cfg, env, slots, upstreams, schedule, sched_rr, up, req, clock, arrivals,
                   consec, elig, outage, routed, requests_inflight>>
    /\ UNCHANGED billingVars
    /\ UNCHANGED auxVars

\* upstream.keys.store, lines 748, 800, 853 and 689. The key states nothing
\* holds any more are dropped. api_add_keys and api_replace_keys then spawn
\* refresh_missing_models_for_upstream (lines 762-766, 811-815);
\* api_reload_all goes on with the next upstream of the snapshot it loaded and
\* then spawns refresh_missing_models_routes (lines 701-704).
AdminKeysSwap(a) ==
    /\ adm[a].pc = "keys_swap"
    /\ LET op == adm[a].op
           o == adm[a].target[1]
           list == adm[a].list
       IN  /\ up' = [up EXCEPT ![o].keys = list]
           /\ ks' = Restrict(ks, KeysHeld(o, list))
           /\ adm' = [adm EXCEPT ![a] =
                  IF op.kind = "delete_keys" THEN AdmDone(op, 200)
                  ELSE IF op.kind = "reload"
                  THEN IF Len(adm[a].target) > 1
                       THEN [@ EXCEPT !.pc = "keys_store", !.list = <<>>,
                                      !.target = Tail(@)]
                       ELSE [@ EXCEPT !.pc = "refresh_all", !.list = <<>>,
                                      !.target = <<>>]
                  ELSE [@ EXCEPT !.pc = "refresh", !.list = <<>>, !.target = <<>>,
                                 !.res = 200]]
    /\ UNCHANGED <<upstream_index, routes, keystore, gen, rr_mod, ops, admins, configured>>
    /\ UNCHANGED <<cfg, env, slots, upstreams, schedule, sched_rr, req, clock, arrivals,
                   consec, elig, outage, routed, requests_inflight>>
    /\ UNCHANGED billingVars
    /\ UNCHANGED auxVars

\* refresh_missing_models_routes, lines 545-555: the routes file and the
\* snapshot are loaded; the upstreams the file has no entry for are to be
\* refreshed.
AdminRefreshAll(a) ==
    /\ adm[a].pc = "refresh_all"
    /\ adm' = [adm EXCEPT ![a] =
           [@ EXCEPT !.pc = "fetch_all",
                     !.target = SelectSeq(upstreams, LAMBDA o : up[o].id \notin DOMAIN routes)]]
    /\ UNCHANGED <<upstream_index, routes, keystore, gen, rr_mod, ops, admins, configured>>
    /\ UNCHANGED <<routerVars, routed>>
    /\ UNCHANGED billingVars
    /\ UNCHANGED auxVars

\* refresh_missing_models_routes, lines 556-566: the next upstream answers
\* GET /v1/models and its models are stored, or the request fails (as it does
\* for an upstream without keys); after the last one the routes are
\* persisted if any upstream was refreshed. list holds the upstreams
\* refreshed.
AdminFetchAll(a) ==
    /\ adm[a].pc = "fetch_all"
    /\ IF adm[a].target = <<>>
       THEN LET written == adm[a].list # <<>> /\
                           \E i \in 1..Len(upstreams) : up[upstreams[i]].models # {}
            IN  /\ routes' = IF written THEN BuildModelRoutes(up) ELSE routes
                /\ route_models' = IF written THEN RoutesInverse(BuildModelRoutes(up))
                                   ELSE route_models
                /\ adm' = [adm EXCEPT ![a] = AdmDone(adm[a].op, 200)]
                /\ UNCHANGED up
       ELSE LET o == adm[a].target[1] IN
            /\ \/ /\ adm' = [adm EXCEPT ![a] = [@ EXCEPT !.target = Tail(@)]]
                  /\ UNCHANGED up
               \/ /\ Len(up[o].keys) > 0
                  /\ \E models \in FetchedModels :
                        up' = [up EXCEPT ![o].models = models]
                  /\ adm' = [adm EXCEPT ![a] =
                         [@ EXCEPT !.target = Tail(@), !.list = Append(@, o)]]
            /\ UNCHANGED <<routes, route_models>>
    /\ UNCHANGED <<upstream_index, keystore, gen, rr_mod, ops, admins, configured>>
    /\ UNCHANGED <<cfg, env, slots, upstreams, schedule, sched_rr, ks, req, clock, arrivals,
                   consec, elig, outage, routed, requests_inflight>>
    /\ UNCHANGED billingVars
    /\ UNCHANGED <<logVars, routes_out, last_put, store_call, calls_left, sse, upstreams_file, picks,
                   call_start>>

\* The steps of the credentials API; its requests arrive and refresh the
\* models of one upstream by the steps of AdminNext.
KeysNext ==
    \/ \E a \in admins : AdminKeysLoad(a)
    \/ \E a \in admins : AdminReloadLoad(a)
    \/ \E a \in admins : AdminKeysStore(a)
    \/ \E a \in admins : AdminKeysBuild(a)
    \/ \E a \in admins : AdminKeysSwap(a)
    \/ \E a \in admins : AdminRefreshAll(a)
    \/ \E a \in admins : AdminFetchAll(a)

(***************************************************************************)
(* Request log and metrics: src/src/state.rs 228-297, 1238-1294            *)
(***************************************************************************)
\* RequestsLog::new(5000, log_tx), line 358.
RequestsCap == 5000

\* RequestMetrics::update, lines 294-296: the step and the cap of each window.
MinuteStep == 60000
HourStep == 3600000
DayStep == 86400000
MinuteCap == 60
HourCap == 48
DayCap == 30

\* The timestamps of the model count units of TimeUnit milliseconds.
TimeUnit == 1000

\* The number of record calls of a behaviour.
MaxRecords == 3

\* while q.len() > cap { q.pop_front(); }
PopFrontToMutant(q, cap) == IF Len(q) > cap THEN SubSeq(q, 1, cap) ELSE q

PopFrontTo(q, cap) == IF Len(q) > cap THEN SubSeq(q, Len(q) - cap + 1, Len(q)) ELSE q

\* classify_status, lines 1238-1246: <<success, failure, ignored>>.
ClassifyStatusMutant(status) ==
    IF status \in 200..300 THEN <<1, 0, 0>>
    ELSE IF status = 404 THEN <<0, 0, 1>>
    ELSE <<0, 1, 0>>

ClassifyStatus(status) ==
    IF status \in 200..299 THEN <<1, 0, 0>>
    ELSE IF status = 404 THEN <<0, 0, 1>>
    ELSE <<0, 1, 0>>

\* A MetricsBucket that starts at ts_ms and has counted nothing.
EmptyBucket(ts_ms) == [ts_ms |-> ts_ms, total |-> 0, success |-> 0, failure |-> 0, ignored |-> 0]

\* update_bucket, lines 1248-1294.  The loop of lines 1272-1281 pushes the
\* buckets last_start + step_ms, last_start + 2 * step_ms, ... up to
\* bucket_start; the timestamps are far below u64::MAX, where saturating_add
\* is the addition.
UpdateBucket(buckets, ts_ms, step_ms, cap, class) ==
    LET bucket_start == ts_ms - (ts_ms % step_ms)
        filled ==
           IF buckets = <<>> THEN <<EmptyBucket(bucket_start)>>
           ELSE LET last_start == buckets[Len(buckets)].ts_ms IN
                IF bucket_start > last_start
                THEN buckets \o [i \in 1..((bucket_start - last_start) \div step_ms) |->
                                    EmptyBucket(last_start + i * step_ms)]
                ELSE buckets
        counted ==
           [filled EXCEPT ![Len(filled)] =
               [@ EXCEPT !.total = @ + 1, !.success = @ + class[1],
                         !.failure = @ + class[2], !.ignored = @ + class[3]]]
    IN  PopFrontTo(counted, cap)

\* RequestMetrics::update, lines 290-297.
MetricsUpdate(m, entry) ==
    LET class == ClassifyStatus(entry.status) IN
    [minute |-> UpdateBucket(m.minute, entry.ts_ms, MinuteStep \div TimeUnit, MinuteCap, class),
     hour |-> UpdateBucket(m.hour, entry.ts_ms, HourStep \div TimeUnit, HourCap, class),
     day |-> UpdateBucket(m.day, entry.ts_ms, DayStep \div TimeUnit, DayCap, class)]

\* A RequestLogEntry: its timestamp and its status.
LogEntry(ts_ms, status) == [ts_ms |-> ts_ms, status |-> status]

IdleRec == [pc |-> "idle", entry |-> LogEntry(0, 0)]

\* RequestsLog::record, lines 245-255: under the lock of entries, the entry is
\* pushed and the oldest ones are dropped.  (The try_send of line 247 feeds the
\* writer of the log file.)
RecordEntries(t) ==
    /\ rec[t].pc = "idle"
    /\ records_left > 0
    /\ records_left' = records_left - 1
    /\ \E entry \in log_env.entries :
          /\ entries' = PopFrontTo(Append(entries, entry), RequestsCap)
          /\ recorded' = Append(recorded, entry)
          /\ rec' = [rec EXCEPT ![t] = [pc |-> "metrics", entry |-> entry]]
    /\ UNCHANGED <<metrics, recs, log_env, recent_out>>
    /\ UNCHANGED <<billingVars, routerVars, adminVars, routed>>
    /\ UNCHANGED <<routeVars, store_call, calls_left, sse, upstreams_file, picks,
                   call_start>>

\* RequestsLog::record, lines 257-260: under the lock of metrics.
RecordMetrics(t) ==
    /\ rec[t].pc = "metrics"
    /\ metrics' = MetricsUpdate(metrics, rec[t].entry)
    /\ rec' = [rec EXCEPT ![t] = IdleRec]
    /\ UNCHANGED <<entries, recs, records_left, log_env, recent_out, recorded>>
    /\ UNCHANGED <<billingVars, routerVars, adminVars, routed>>
    /\ UNCHANGED <<routeVars, store_call, calls_left, sse, upstreams_file, picks,
                   call_start>>

\* RequestsLog::recent, lines 263-266: entries.iter().rev().take(limit).
Recent(q, limit) == [i \in 1..Min(limit, Len(q)) |-> q[Len(q) + 1 - i]]

\* usize::clamp
Clamp(x, lo, hi) == IF x < lo THEN lo ELSE IF x > hi THEN hi ELSE x

\* api_requests, admin.rs 613-624: the limit of the query, 200 without one,
\* clamped to 1..=5000.  The answer is kept with the number of entries pushed
\* before it was made.
ApiRequests ==
    /\ \E l \in log_env.limits :
          LET limit == Clamp(IF l = <<>> THEN 200 ELSE l[1], 1, 5000) IN
          recent_out' = [limit |-> limit, list |-> Recent(entries, limit),
                         at |-> Len(recorded)]
    /\ UNCHANGED <<entries, metrics, rec, recs, records_left, log_env, recorded>>
    /\ UNCHANGED <<billingVars, routerVars, adminVars, routed>>
    /\ UNCHANGED <<routeVars, store_call, calls_left, sse, upstreams_file, picks,
                   call_start>>

LogNext ==
    \/ \E t \in recs : RecordEntries(t)
    \/ \E t \in recs : RecordMetrics(t)
    \/ ApiRequests

\* The log after n0 requests of status 200 at time 0, with the threads tasks
\* about to make n_records record calls.
LogInit(tasks, inputs, n0, n_records) ==
    /\ recs = tasks
    /\ rec = [t \in tasks |-> IdleRec]
    /\ records_left = n_records
    /\ log_env = inputs
    /\ entries = [i \in 1..Min(n0, RequestsCap) |-> LogEntry(0, 200)]
    /\ recorded = [i \in 1..n0 |-> LogEntry(0, 200)]
    /\ metrics = IF n0 = 0 THEN [minute |-> <<>>, hour |-> <<>>, day |-> <<>>]
                 ELSE LET b == [EmptyBucket(0) EXCEPT !.total = n0, !.success = n0]
                      IN  [minute |-> <<b>>, hour |-> <<b>>, day |-> <<b>>]
    /\ recent_out = [limit |-> 1, list |-> Recent(entries, 1), at |-> n0]

\* The log of a process that records nothing.
LogIdle == LogInit({}, [entries |-> {}, limits |-> {}], 0, 0)

\* No response body is being forwarded.
NoBody == [pc |-> "idle", body |-> <<>>, rest |-> <<>>, sse_buf |-> <<>>,
           usage |-> <<>>, debited |-> <<>>]

\* Nothing happens below the router and the billing store.
AuxIdle ==
    /\ LogIdle /\ RoutesIdle /\ store_call = NoStoreCall /\ calls_left = 0 /\ sse = NoBody
    /\ upstreams_file = <<>>
    /\ picks = NoPicks
    /\ call_start = <<>>

(***************************************************************************)
(* The task that forwards a response body and reads its usage              *)
(* (proxy.rs 493-557, 671-718), for a streaming request whose response is  *)
(* an uncompressed text/event-stream                                       *)
(***************************************************************************)

\* The text of a body is a sequence of pieces, between any two of which a
\* chunk may end: "da" and "ta:" make the prefix "data:"; "{u" followed by
\* "1}" or "2}" is a JSON object whose member usage has total_tokens 1 or 2;
\* "{x}" is a JSON object without usage; the others stand for themselves.
UsageOf == ("1}" :> 1) @@ ("2}" :> 2)

\* extract_usage_from_value on serde_json::from_str(data): the total of the
\* usage, or none (<<>>).
ExtractUsage(data) ==
    IF Len(data) = 2 /\ data[1] = "{u" /\ data[2] \in DOMAIN UsageOf
    THEN <<UsageOf[data[2]]>>
    ELSE <<>>

RECURSIVE TrimEndCr(_)
\* trim_end_matches('\r')
TrimEndCr(w) ==
    IF w # <<>> /\ w[Len(w)] = "\r" THEN TrimEndCr(SubSeq(w, 1, Len(w) - 1)) ELSE w

\* parse_sse_usage, lines 701-715: what one complete line gives.
LineUsage(line) ==
    IF Len(line) < 2 \/ SubSeq(line, 1, 2) # <<"da", "ta:">> THEN <<>>
    ELSE LET data == Trim(SubSeq(line, 3, Len(line))) IN
         IF data = <<"[DONE]">> THEN <<>>
         ELSE IF \A i \in DOMAIN data : data[i] # "{u" THEN <<>>
         ELSE ExtractUsage(data)

RECURSIVE DrainLines(_, _)
\* parse_sse_usage, the while loop: the lines that buf holds in full are
\* taken from it; found is the usage of the last one that has one.
DrainLines(buf, found) ==
    IF \A i \in DOMAIN buf : buf[i] # "\n" THEN [buf |-> buf, found |-> found]
    ELSE LET pos == CHOOSE i \in DOMAIN buf :
                        buf[i] = "\n" /\ \A j \in 1..(i - 1) : buf[j] # "\n"
             u == LineUsage(TrimEndCr(SubSeq(buf, 1, pos - 1)))
         IN  DrainLines(SubSeq(buf, pos + 1, Len(buf)), IF u # <<>> THEN u ELSE found)

\* parse_sse_usage(buf, chunk)
ParseSseUsage(buf, chunk) == DrainLines(buf \o chunk, <<>>)

\* A response body arrives for the task.
StartBody(b) == [NoBody EXCEPT !.pc = "reading", !.body = b, !.rest = b]

\* One turn of the while loop, lines 505-544: the next chunk is forwarded
\* and, unless a usage has been found already, parsed.
BodyChunk ==
    /\ sse.pc = "reading"
    /\ sse.rest # <<>>
    /\ \E n \in 1..Len(sse.rest) :
          LET chunk == SubSeq(sse.rest, 1, n)
              rest == SubSeq(sse.rest, n + 1, Len(sse.rest))
              parsed == ParseSseUsage(sse.sse_buf, chunk)
          IN  IF sse.usage # <<>>
              THEN sse' = [sse EXCEPT !.rest = rest]
              ELSE sse' = [sse EXCEPT !.rest = rest, !.sse_buf = parsed.buf,
                                      !.usage = parsed.found]
    /\ UNCHANGED <<billingVars, routerVars, adminVars, routed>>
    /\ UNCHANGED <<logVars, routeVars, store_call, calls_left, upstreams_file, picks,
                   call_start>>

\* The loop ends, lines 505 and 549-556: the body is over, or (lines 509-511,
\* 545) the caller is gone or a chunk is an error; the usage found is debited
\* and recorded.
BodyEnd ==
    /\ sse.pc = "reading"
    /\ \/ sse.rest = <<>> /\ sse' = [sse EXCEPT !.pc = "done", !.debited = sse.usage]
       \/ sse.rest # <<>> /\ sse' = [sse EXCEPT !.pc = "broken", !.debited = sse.usage]
    /\ UNCHANGED <<billingVars, routerVars, adminVars, routed>>
    /\ UNCHANGED <<logVars, routeVars, store_call, calls_left, upstreams_file, picks,
                   call_start>>

BodyNext == BodyChunk \/ BodyEnd

\* The ban configuration of the model's config file.
BanConfig ==
    [rate_limit_ms |-> 1, server_error_ms |-> 1, network_error_ms |-> 1,
     auth_error_ms |-> 2, max_backoff_pow |-> 1]

\* The state after boot: two upstreams of weight 1; "u1" holds the keys u1_keys
\* and serves model m, "u2" holds the key c and serves model m2.
RouterBootWith(ban, inject, inputs, tasks, u1_keys, u2_models, n_arrivals) ==
    /\ cfg = [ban |-> ban, proxy_tokens |-> {"t1"}, admin_tokens |-> {"s1"},
              usage_inject_upstreams |-> inject]
    /\ env = inputs
    /\ slots = tasks
    /\ upstreams = <<"u1", "u2">>
    /\ schedule = <<0, 1>>
    /\ sched_rr = 0
    /\ upstream_index = [u \in UpIds |-> IF u = "u1" THEN 0 ELSE 1]
    /\ routes = [u \in UpIds |-> IF u = "u1" THEN {"m"} ELSE u2_models]
    /\ keystore = [u \in AdminIds |->
                      IF u = "u1" THEN u1_keys ELSE IF u = "u2" THEN <<"c">> ELSE <<>>]
    /\ gen = 0
    /\ configured = [u \in AdminIds |-> <<1>>]
    /\ routed = [r \in tasks |-> UpIds]
    /\ requests_inflight = 0
    /\ up = [u \in UpIds |->
                IF u = "u1" THEN NewUpstream("u1", 1, u1_keys, {"m"})
                ELSE NewUpstream("u2", 1, <<"c">>, u2_models)]
    /\ ks = [k \in KeyIds |-> NewKeyState(k)]
    /\ req = [r \in tasks |-> IdleReq]
    /\ clock = 0
    /\ arrivals = n_arrivals
    /\ consec = [u \in UpIds |-> 0]
    /\ elig = [r \in tasks |-> {}]
    /\ outage = [u \in UpIds |-> 0]

\* The boot of a configuration without usage_inject_upstreams, whose "u2"
\* serves model m2.
RouterBoot(ban, inputs, tasks, u1_keys, n_arrivals) ==
    RouterBootWith(ban, <<>>, inputs, tasks, u1_keys, {"m2"}, n_arrivals)

\* The admin tasks tasks receive the requests requests; sched_rr is kept
\* modulo modulus.
AdminInit(tasks, requests, modulus) ==
    /\ admins = tasks
    /\ ops = requests
    /\ adm = [a \in tasks |-> IdleAdm]
    /\ rr_mod = modulus

\* The state after boot with the ban configuration BanConfig, when the admin
\* API receives no request.
RouterInit(inputs, tasks, u1_keys, n_arrivals) ==
    /\ RouterBoot(BanConfig, inputs, tasks, u1_keys, n_arrivals)
    /\ AdminInit({}, {}, 2)

\* Two concurrent request tasks.
ProxyInit ==
    /\ \E b \in BootBalances : BillingInit(b)
    /\ RouterInit(PlainInputs, {1, 2}, <<"a", "b">>, MaxArrivals)
    /\ AuxIdle

SpecProxy == ProxyInit /\ [][ProxyNext]_vars

\* Two concurrent request tasks, one request fewer.
SelectInit ==
    /\ \E b \in BootBalances : BillingInit(b)
    /\ RouterInit(PlainInputs, {1, 2}, <<"a", "b">>, MaxArrivals - 1)
    /\ AuxIdle

SpecSelect == SelectInit /\ [][ProxyNext]_vars

\* One request at a time, with every input.
SeqInit ==
    /\ \E b \in BootBalances : BillingInit(b)
    /\ RouterInit(AllInputs, {1}, <<"a", "b">>, MaxArrivals)
    /\ AuxIdle

SpecSeq == SeqInit /\ [][ProxyNext]_vars

\* One request at a time for model m, on an upstream of seven credentials.
RetryInit ==
    /\ \E b \in BootBalances : BillingInit(b)
    /\ RouterInit(PlainInputs, {1}, <<"a", "b", "d", "e", "f", "g", "h">>, MaxArrivals)
    /\ AuxIdle

SpecRetry == RetryInit /\ [][ProxyNext]_vars

\* A ban configuration whose server-error base differs from the
\* network-error base.
OutageBanConfig ==
    [rate_limit_ms |-> 1, server_error_ms |-> 2, network_error_ms |-> 1,
     auth_error_ms |-> 2, max_backoff_pow |-> 1]

\* Authorized requests for model m; the upstream answers, fails or times out.
OutageInputs ==
    [headers |-> {Headers(<<"t1">>, <<"k1">>, <<>>)},
     bodies |-> {"ok"},
     models |-> {<<"m">>},
     statuses |-> {200, 429, 500, 503},
     outcomes |-> {"response", "network_error", "timeout"},
     usages |-> {<<>>},
     extras |-> {<<>>},
     payloads |-> {Payload(FALSE, <<>>)}]

\* One request at a time under OutageBanConfig.
OutageInit ==
    /\ \E b \in BootBalances : BillingInit(b)
    /\ RouterBoot(OutageBanConfig, OutageInputs, {1}, <<"a", "b">>, MaxArrivals)
    /\ AdminInit({}, {}, 2)
    /\ AuxIdle

SpecOutage == OutageInit /\ [][ProxyNext]_vars

\* A request of the admin API for upstream id, with its X-Admin-Token header.
AdminOp(kind, id, base_url, weight, delete_keys, token) ==
    [kind |-> kind, id |-> id, base_url |-> base_url, weight |-> weight,
     delete_keys |-> delete_keys, token |-> token, body |-> <<>>]

\* The requests to add, update and delete upstreams, with the admin tokens
\* tokens and the weights weights.
UpstreamOps(tokens, weights) ==
    {AdminOp(kind, id, b, w, FALSE, t) :
        kind \in {"add", "update"}, id \in AdminIds, b \in {"valid", "invalid"},
        w \in weights, t \in tokens}
    \cup
    {AdminOp("delete", id, "", <<>>, d, t) : id \in AdminIds, d \in BOOLEAN, t \in tokens}

\* The weights an admin request may carry: none, 0, 2 and MAX_WEIGHT + 1.
AdminWeights == {<<>>, <<0>>, <<2>>, <<MAX_WEIGHT + 1>>}

\* One admin request at a time and no proxied request.
AdminBootInit ==
    /\ \E b \in BootBalances : BillingInit(b)
    /\ RouterBoot(BanConfig, PlainInputs, {}, <<"a", "b">>, 0)
    /\ AdminInit({1}, UpstreamOps({<<"s1">>}, AdminWeights), 1)
    /\ AuxIdle

SpecAdmin == AdminBootInit /\ [][AdminNext]_vars

\* Requests that add a third upstream, add one that exists, change a weight
\* and delete each of the upstreams of the boot configuration.
PairOps ==
    {AdminOp("add", "u3", "valid", <<2>>, FALSE, <<"s1">>),
     AdminOp("add", "u1", "valid", <<>>, FALSE, <<"s1">>),
     AdminOp("update", "u2", "valid", <<0>>, FALSE, <<"s1">>),
     AdminOp("delete", "u1", "", <<>>, FALSE, <<"s1">>),
     AdminOp("delete", "u2", "", <<>>, TRUE, <<"s1">>)}

\* Two admin requests at a time and no proxied request.
AdminPairInit ==
    /\ \E b \in BootBalances : BillingInit(b)
    /\ RouterBoot(BanConfig, PlainInputs, {}, <<"a", "b">>, 0)
    /\ AdminInit({1, 2}, PairOps, 1)
    /\ AuxIdle

SpecAdminPair == AdminPairInit /\ [][AdminNext]_vars

\* Requests that replace the snapshot while the schedule keeps a length that
\* divides 2: update u1, delete u1 (keeping its keys), add u1, delete u2.
SwapOps ==
    {AdminOp("update", "u1", "valid", <<>>, FALSE, <<"s1">>),
     AdminOp("delete", "u1", "", <<>>, FALSE, <<"s1">>),
     AdminOp("add", "u1", "valid", <<>>, FALSE, <<"s1">>),
     AdminOp("delete", "u2", "", <<>>, TRUE, <<"s1">>)}

\* One request task and one admin request at a time.
SwapInit ==
    /\ \E b \in BootBalances : BillingInit(b)
    /\ RouterBoot(BanConfig, PlainInputs, {1}, <<"a", "b">>, MaxArrivals - 2)
    /\ AdminInit({1}, SwapOps, 2)
    /\ AuxIdle

SwapNext == ProxyNext \/ AdminNext

SpecSwap == SwapInit /\ [][SwapNext]_vars

\* Authorized requests for model m, answered 200 or 429.
AnsweredInputs == [PlainInputs EXCEPT !.statuses = {200, 429}, !.outcomes = {"response"}]

\* One request task at a time, both upstreams serving model m; the admin
\* API may give u1 the weight 2. The selections are recorded.
WrrInit ==
    /\ \E b \in BootBalances : BillingInit(b)
    /\ RouterBootWith(BanConfig, <<>>, AnsweredInputs, {1}, <<"a", "b">>, {"m"},
                      MaxArrivals - 1)
    /\ AdminInit({1}, {AdminOp("update", "u1", "valid", <<2>>, FALSE, <<"s1">>)}, 6)
    /\ LogIdle /\ RoutesIdle /\ store_call = NoStoreCall /\ calls_left = 0 /\ sse = NoBody
    /\ upstreams_file = <<>>
    /\ picks = [on |-> TRUE, log |-> <<>>]
    /\ call_start = <<>>

WrrNext ==
    \/ ProxyNext
    \/ \E a \in admins : AdminArrive(a)
    \/ \E a \in admins : AdminLoad(a)
    \/ \E a \in admins : AdminBuild(a)
    \/ \E a \in admins : AdminStore(a)
    \/ \E a \in admins : AdminCleanup(a)

SpecWrr == WrrInit /\ [][WrrNext]_vars

\* handle_api, lines 57-69, as AdminArrive; the request, the configurations
\* of the live snapshot and upstreams.json are noted as they are at the
\* arrival.
AdminCall(a) ==
    /\ adm[a].pc = "idle"
    /\ gen < MaxBuilds
    /\ \E op \in ops :
          /\ IF ~AuthorizeAdminHeader(op.token)
             THEN adm' = [adm EXCEPT ![a] = AdmDone(op, 401)]
             ELSE adm' = [adm EXCEPT ![a] = [IdleAdm EXCEPT !.pc = "load", !.op = op]]
          /\ call_start' = (a :> [op |-> op, live |-> CurrentUpstreamConfigs,
                                  file |-> upstreams_file]) @@ call_start
    /\ UNCHANGED <<upstream_index, routes, keystore, gen, rr_mod, ops, admins, configured>>
    /\ UNCHANGED <<routerVars, routed>>
    /\ UNCHANGED billingVars
    /\ UNCHANGED <<logVars, routeVars, store_call, calls_left, sse, upstreams_file, picks>>

\* replace_upstreams, lines 1075-1076, when std::fs::write fails in
\* write_upstreams_override (lines 894-898): the snapshot has been stored,
\* upstreams.json is as it was, and the error goes back through add_upstream,
\* update_upstream or delete_upstream to the handler, which answers 400.
AdminStoreFails(a) ==
    /\ adm[a].pc = "store"
    /\ LET built == adm[a].built
           op == adm[a].op
           held == Range(built.upstreams) \cup HeldUpstreams
           heldKeys == HeldKeys \cup
                       UNION {Range(up[o].keys) : o \in held \cap DOMAIN up}
       IN  /\ slots = {} \/ rr_mod % Len(built.schedule) = 0
           /\ upstreams' = built.upstreams
           /\ upstream_index' = built.upstream_index
           /\ schedule' = built.schedule
           /\ adm' = [adm EXCEPT ![a] = AdmDone(op, 400)]
           /\ up' = Restrict(up, held)
           /\ ks' = Restrict(ks, heldKeys)
           /\ consec' = Restrict(consec, held)
           /\ outage' = Restrict(outage, held)
           /\ configured' =
                 IF op.kind = "delete" THEN configured
                 ELSE [configured EXCEPT ![op.id] = op.weight]
    /\ UNCHANGED <<routes, keystore, gen, rr_mod, ops, admins>>
    /\ UNCHANGED <<cfg, env, slots, sched_rr, req, clock, arrivals, elig, routed,
                   requests_inflight>>
    /\ UNCHANGED billingVars
    /\ UNCHANGED auxVars

\* replace_upstreams, line 1077, when write_model_routes fails in
\* cleanup_model_routes (line 1121): the routes file is as it was and is not
\* applied; the snapshot and upstreams.json have been replaced, and the
\* handler answers 400.
AdminCleanupFails(a) ==
    /\ adm[a].pc = "cleanup"
    /\ DOMAIN RetainRoutes(routes, upstream_index) # DOMAIN routes
    /\ adm' = [adm EXCEPT ![a] = AdmDone(adm[a].op, 400)]
    /\ UNCHANGED <<upstream_index, routes, keystore, gen, rr_mod, ops, admins, configured>>
    /\ UNCHANGED <<routerVars, routed>>
    /\ UNCHANGED billingVars
    /\ UNCHANGED auxVars

\* Requests on the upstreams that fail before replace_upstreams (an id that
\* exists, ids that do not), in build_snapshot_from_configs (a base URL that
\* does not parse) or not at all.
WriteOps ==
    {AdminOp("add", "u1", "valid", <<>>, FALSE, <<"s1">>),
     AdminOp("add", "u3", "valid", <<2>>, FALSE, <<"s1">>),
     AdminOp("add", "u3", "invalid", <<>>, FALSE, <<"s1">>),
     AdminOp("update", "u3", "valid", <<>>, FALSE, <<"s1">>),
     AdminOp("update", "u1", "valid", <<2>>, FALSE, <<"s1">>),
     AdminOp("update", "u2", "invalid", <<>>, FALSE, <<"s1">>),
     AdminOp("delete", "u3", "", <<>>, FALSE, <<"s1">>),
     AdminOp("delete", "u1", "", <<>>, FALSE, <<"s1">>),
     AdminOp("delete", "u2", "", <<>>, TRUE, <<"s1">>),
     AdminOp("delete", "u2", "", <<>>, TRUE, <<>>)}

\* One admin request at a time on the upstreams; upstreams.json is not
\* written yet.
WriteInit ==
    /\ \E b \in BootBalances : BillingInit(b)
    /\ RouterBoot(BanConfig, PlainInputs, {}, <<"a", "b">>, 0)
    /\ AdminInit({1}, WriteOps, 1)
    /\ AuxIdle

\* Either write of replace_upstreams may fail.
WriteNext ==
    \/ \E a \in admins : AdminCall(a)
    \/ \E a \in admins : AdminLoad(a)
    \/ \E a \in admins : AdminBuild(a)
    \/ \E a \in admins : AdminStore(a)
    \/ \E a \in admins : AdminStoreFails(a)
    \/ \E a \in admins : AdminCleanup(a)
    \/ \E a \in admins : AdminCleanupFails(a)
    \/ \E a \in admins : AdminDeleteKeys(a)
    \/ \E a \in admins : AdminRefresh(a)
    \/ \E a \in admins : AdminFetch(a)

SpecWrite == WriteInit /\ [][WriteNext]_vars

\* Requests that delete u1, keeping its keys, and add u1 or u3.
AddOps ==
    {AdminOp("delete", "u1", "", <<>>, FALSE, <<"s1">>),
     AdminOp("add", "u1", "valid", <<>>, FALSE, <<"s1">>),
     AdminOp("add", "u3", "valid", <<2>>, FALSE, <<"s1">>)}

\* Three admin tasks, no proxy traffic.
AddsInit ==
    /\ \E b \in BootBalances : BillingInit(b)
    /\ RouterBoot(BanConfig, PlainInputs, {}, <<"a", "b">>, 0)
    /\ AdminInit({1, 2, 3}, AddOps, 1)
    /\ AuxIdle

\* Each task serves one request; no write fails.
AddsNext ==
    \/ \E a \in admins : a \notin DOMAIN call_start /\ AdminCall(a)
    \/ \E a \in admins : AdminLoad(a)
    \/ \E a \in admins : AdminBuild(a)
    \/ \E a \in admins : AdminStore(a)
    \/ \E a \in admins : AdminCleanup(a)
    \/ \E a \in admins : AdminRefresh(a)
    \/ \E a \in admins : AdminFetch(a)

SpecAdds == AddsInit /\ [][AddsNext]_vars

\* Requests of the credentials API for u1: POST of d, of e and (without
\* dedupe) of d after a blank; PUT of a twice without dedupe; DELETE of a; a
\* reload. Requests that delete u1 (keeping its keys), add it and delete u2
\* with its keys.
CredOps ==
    {KeysOp("add_keys", "u1", <<"d">>, <<>>, <<"s1">>),
     KeysOp("add_keys", "u1", <<"e">>, <<TRUE>>, <<"s1">>),
     KeysOp("add_keys", "u1", <<" d">>, <<FALSE>>, <<"s1">>),
     KeysOp("replace_keys", "u1", <<"a", "a">>, <<FALSE>>, <<"s1">>),
     KeysOp("delete_keys", "u1", <<"a">>, <<>>, <<"s1">>),
     KeysOp("reload", "", <<>>, <<>>, <<"s1">>),
     AdminOp("delete", "u1", "", <<>>, FALSE, <<"s1">>),
     AdminOp("add", "u1", "valid", <<>>, FALSE, <<"s1">>),
     AdminOp("delete", "u2", "", <<>>, TRUE, <<"s1">>)}

\* Two admin requests at a time on the credentials and on the upstreams.
CredsInit ==
    /\ \E b \in BootBalances : BillingInit(b)
    /\ RouterBoot(BanConfig, PlainInputs, {}, <<"a", "b">>, 0)
    /\ AdminInit({1, 2}, CredOps, 1)
    /\ AuxIdle

CredsNext == AdminNext \/ KeysNext

SpecCreds == CredsInit /\ [][CredsNext]_vars

\* Requests that save the routes of both upstreams, delete each upstream of
\* the boot configuration and add u1.
RouteFileOps ==
    {BodyOp("put_routes", "", ("u1" :> <<<<"m", "2">>>>) @@ ("u2" :> <<<<"m">>, <<"m", "3">>>>),
            <<"s1">>),
     BodyOp("put_routes", "", ("u2" :> <<<<"m">>, <<"m">>>>), <<"s1">>),
     AdminOp("delete", "u1", "", <<>>, FALSE, <<"s1">>),
     AdminOp("delete", "u2", "", <<>>, TRUE, <<"s1">>),
     AdminOp("add", "u1", "valid", <<>>, FALSE, <<"s1">>)}

\* Two admin requests at a time on the upstreams and on the routes.
RouteFileInit ==
    /\ \E b \in BootBalances : BillingInit(b)
    /\ RouterBoot(BanConfig, PlainInputs, {}, <<"a", "b">>, 0)
    /\ AdminInit({1, 2}, RouteFileOps, 1)
    /\ AuxIdle

RouteFileNext ==
    \/ AdminNext
    \/ \E a \in admins : AdminPutLoad(a)
    \/ \E a \in admins : AdminPutWrite(a)

SpecRouteFile == RouteFileInit /\ [][RouteFileNext]_vars

\* Authorized requests for model m whose responses carry a usage of 7 tokens.
DebitInputs == [PlainInputs EXCEPT !.usages = {<<7>>}]

\* Two concurrent request tasks whose responses are billed, one request fewer.
DebitInit ==
    /\ \E b \in BootBalances : BillingInit(b)
    /\ RouterInit(DebitInputs, {1, 2}, <<"a", "b">>, MaxArrivals - 1)
    /\ AuxIdle

SpecDebit == DebitInit /\ [][ProxyNext]_vars

\* The requests of SwapOps, a request that adds the credential d to u1 and a
\* reload.
RebuildOps ==
    SwapOps \cup {KeysOp("add_keys", "u1", <<"d">>, <<>>, <<"s1">>),
                  KeysOp("reload", "", <<>>, <<>>, <<"s1">>)}

\* One request task and one admin request at a time, credentials included.
RebuildInit ==
    /\ \E b \in BootBalances : BillingInit(b)
    /\ RouterBoot(BanConfig, PlainInputs, {1}, <<"a", "b">>, MaxArrivals - 2)
    /\ AdminInit({1}, RebuildOps, 2)
    /\ AuxIdle

RebuildNext == ProxyNext \/ AdminNext \/ KeysNext

SpecRebuild == RebuildInit /\ [][RebuildNext]_vars

\* The X-Admin-Token headers of the requests: absent, a token that is not
\* configured, the proxy token and the admin token.
AuthTokens == {<<>>, <<"bad">>, <<"t1">>, <<"s1">>}

\* One request of each kind with each header: requests that change the
\* upstreams, the credentials and the balances, and requests that read.
AuthOps ==
    UNION {{AdminOp("add", "u1", "valid", <<2>>, FALSE, t),
            AdminOp("update", "u2", "valid", <<0>>, FALSE, t),
            AdminOp("delete", "u1", "", <<>>, FALSE, t),
            AdminOp("delete", "u2", "", <<>>, TRUE, t),
            AdminOp("billing_create", "k2", "", <<5>>, FALSE, t),
            AdminOp("billing_create", "k1", "", <<>>, FALSE, t),
            AdminOp("balance", "k1", "", <<>>, FALSE, t),
            AdminOp("list", "", "", <<>>, FALSE, t),
            AdminOp("other", "", "", <<>>, FALSE, t)} : t \in AuthTokens}

\* One admin request at a time, with and without the admin token.
AuthInit ==
    /\ \E b \in BootBalances : BillingInit(b)
    /\ RouterBoot(BanConfig, PlainInputs, {}, <<"a", "b">>, 0)
    /\ AdminInit({1}, AuthOps, 1)
    /\ AuxIdle

AuthNext ==
    \/ AdminNext
    \/ \E a \in admins : AdminRead(a)
    \/ \E a \in admins : AdminCreateKey(a)
    \/ \E a \in admins : AdminCreateKeySend(a)

SpecAuth == AuthInit /\ [][AuthNext]_vars

\* Two concurrent request tasks whose clients may disconnect.
AbortInit ==
    /\ \E b \in BootBalances : BillingInit(b)
    /\ RouterInit(PlainInputs, {1, 2}, <<"a", "b">>, MaxArrivals - 1)
    /\ AuxIdle

AbortNext == ProxyNext \/ \E r \in slots : Abort(r)

SpecAbort == AbortInit /\ [][AbortNext]_vars

\* Headers a client may add: every name sanitize_hop_headers removes, a second
\* Authorization, and two names forward leaves alone.
ClientExtras ==
    << <<"connection", "close">>, <<"host", "proxy.local">>,
       <<"proxy-connection", "close">>, <<"proxy-authenticate", "Basic">>,
       <<"proxy-authorization", "Basic cHJveHk=">>, <<"te", "trailers">>,
       <<"trailer", "expires">>, <<"transfer-encoding", "chunked">>,
       <<"upgrade", "h2c">>, <<"x-proxy-token", "t2">>, <<"x-admin-token", "s1">>,
       <<"authorization", "Bearer client">>, <<"accept", "text/event-stream">>,
       <<"content-length", "99">> >>

\* Requests for model m with and without those headers, on either path, whose
\* bodies ask for a stream or not and name include_usage or not; the upstream
\* answers 200 or 429.
WireInputs ==
    [headers |-> {Headers(<<"t1">>, <<"k1">>, <<>>),
                  Headers(<<"t1">>, <<>>, Auth("Bearer ", "k1"))},
     bodies |-> {"ok"},
     models |-> {<<"m">>},
     statuses |-> {200, 429},
     outcomes |-> {"response", "timeout"},
     usages |-> {<<>>},
     extras |-> {<<>>, ClientExtras},
     payloads |-> {Payload(TRUE, <<>>),
                   Payload(FALSE, <<Json(<<TRUE>>, "false")>>),
                   Payload(TRUE, <<Json(<<FALSE>>, "false")>>),
                   Payload(TRUE, <<Json(<<TRUE>>, "absent")>>),
                   Payload(TRUE, <<Json(<<TRUE>>, "empty")>>),
                   Payload(TRUE, <<Json(<<TRUE>>, "true")>>),
                   Payload(TRUE, <<Json(<<TRUE>>, "not_object")>>),
                   Payload(TRUE, <<Json(<<TRUE>>, "false")>>)}]

\* One request at a time; both upstreams serve model m and usage is injected
\* for "u1" only.
WireInit ==
    /\ \E b \in BootBalances : BillingInit(b)
    /\ RouterBootWith(BanConfig, <<{"u1"}>>, WireInputs, {1}, <<"a", "b">>, {"m"},
                      MaxArrivals - 2)
    /\ AdminInit({}, {}, 2)
    /\ AuxIdle

SpecWire == WireInit /\ [][ProxyNext]_vars

\* The entries of the record calls: two times and two statuses.
FewEntries == {LogEntry(0, 200), LogEntry(MinuteStep \div TimeUnit, 500)}

\* The limits of the queries: none, 0, 2 and more than the cap.
Limits == {<<>>, <<0>>, <<2>>, <<RequestsCap + 1>>}

\* Two threads record, on a log that is empty, one entry short of its cap
\* or at its cap.
LogBootInit ==
    /\ \E b \in BootBalances : BillingInit(b)
    /\ RouterInit(PlainInputs, {}, <<"a", "b">>, 0)
    /\ \E n0 \in {0, RequestsCap - 1, RequestsCap} :
          LogInit({1, 2}, [entries |-> FewEntries, limits |-> Limits], n0, MaxRecords)
    /\ RoutesIdle
    /\ store_call = NoStoreCall
    /\ calls_left = 0
    /\ sse = NoBody
    /\ upstreams_file = <<>>
    /\ picks = NoPicks
    /\ call_start = <<>>

SpecLog == LogBootInit /\ [][LogNext]_vars

\* The statuses of the record calls, one of each class.
Statuses == {200, 300, 404}

\* The entries recorded: every status at the first stamp and at the last one,
\* and one at each stamp next to the end of the first minute.
MetricEntries ==
    {LogEntry(t, st) : t \in {0, (DayCap + 1) * (DayStep \div TimeUnit)}, st \in Statuses}
    \cup {LogEntry(MinuteStep \div TimeUnit - 1, 200),
          LogEntry(MinuteStep \div TimeUnit, 404)}

\* One thread records on an empty log.
MetricsInit ==
    /\ \E b \in BootBalances : BillingInit(b)
    /\ RouterInit(PlainInputs, {}, <<"a", "b">>, 0)
    /\ LogInit({1}, [entries |-> MetricEntries, limits |-> {<<>>}], 0, MaxRecords)
    /\ RoutesIdle
    /\ store_call = NoStoreCall
    /\ calls_left = 0
    /\ sse = NoBody
    /\ upstreams_file = <<>>
    /\ picks = NoPicks
    /\ call_start = <<>>

SpecMetrics == MetricsInit /\ [][LogNext]_vars

\* The bodies of PUT /admin/api/v1/models/routes: names with blanks around
\* them, empty and blank names and duplicates; an upstream without models;
\* no upstream; an id that is not configured, alone and beside one that is.
RouteBodies ==
    {("u1" :> <<<<" ", "m">>, <<"m">>, <<>>, <<" ">>, <<"m", "2", " ">>>>),
     ("u1" :> <<<<"m", "2">>>>) @@ ("u2" :> <<<<"m", "2", "\t">>, <<"m", "3">>>>),
     ("u2" :> <<>>),
     <<>>,
     ("u3" :> <<<<"m">>>>),
     ("u1" :> <<<<"m", "3">>>>) @@ ("u3" :> <<<<"m">>>>)}

RouteOps ==
    {BodyOp("put_routes", "", b, <<"s1">>) : b \in RouteBodies}
    \cup {BodyOp("get_routes", "", <<>>, <<"s1">>)}

\* One admin request at a time on the routes of the models.
RoutesInit ==
    /\ \E b \in BootBalances : BillingInit(b)
    /\ RouterBoot(BanConfig, PlainInputs, {}, <<"a", "b">>, 0)
    /\ AdminInit({1}, RouteOps, 1)
    /\ AuxIdle

SpecRoutes == RoutesInit /\ [][RoutesNext]_vars

\* The key lists of the calls: none, one key, a list with a duplicate, and
\* keys of another upstream.
KeyLists == {<<>>, <<"a">>, <<"b", "a", "b">>, <<"c", "e">>}

\* Calls of the key store, one at a time, on the store of boot.
KeysInit ==
    /\ \E b \in BootBalances : BillingInit(b)
    /\ RouterBoot(BanConfig, PlainInputs, {}, <<"a", "b">>, 0)
    /\ AdminInit({}, KeyLists, 1)
    /\ AuxIdle

SpecKeys == KeysInit /\ [][StoreNext]_vars

\* The threads that call the billing store, and its persister.
StoreInit ==
    /\ \E b \in BootBalances : BillingInit(b)
    /\ RouterInit(PlainInputs, {1}, <<"a", "b">>, 0)
    /\ AuxIdle

SpecBilling == StoreInit /\ [][BillingNext]_vars

\* A call of the billing store has returned and its thread is free for the
\* next one (the handlers of proxy.rs and admin.rs call the store request after
\* request).
CallReturns(c) ==
    /\ bcall[c].pc = "done"
    /\ calls_left > 0
    /\ calls_left' = calls_left - 1
    /\ bcall' = [bcall EXCEPT ![c] = IdleCall]
    /\ UNCHANGED <<balances, persist_tx, pending, tree, persister, tx_dropped, bal0,
                   last_set>>
    /\ UNCHANGED routerVars
    /\ UNCHANGED <<adminVars, routed>>
    /\ UNCHANGED <<logVars, routeVars, store_call, sse, upstreams_file, picks,
                   call_start>>

\* The billing store under threads that call it again: MaxCalls calls follow
\* the first call of each thread.
QueueInit ==
    /\ \E b \in BootBalances : BillingInit(b)
    /\ RouterInit(PlainInputs, {1}, <<"a", "b">>, 0)
    /\ LogIdle /\ RoutesIdle /\ store_call = NoStoreCall /\ sse = NoBody
    /\ upstreams_file = <<>>
    /\ picks = NoPicks
    /\ call_start = <<>>
    /\ calls_left = MaxCalls

QueueNext == BillingNext \/ \E c \in Callers : CallReturns(c)

SpecQueue == QueueInit /\ [][QueueNext]_vars

\* The events of a stream: a delta, a usage of 1 or 2 tokens, the end mark.
Event(data) == <<"da", "ta:", " ">> \o data \o <<"\n", "\n">>

DeltaEvent == Event(<<"{x}">>)
UsageEvent(n) == Event(<<"{u", IF n = 1 THEN "1}" ELSE "2}">>)
DoneEvent == <<"da", "ta:", "[DONE]", "\r", "\n", "\r", "\n">>

\* The bodies an upstream may stream: without usage, with one usage event, and
\* with two.
SseBodies ==
    {DeltaEvent \o DoneEvent,
     DeltaEvent \o UsageEvent(1) \o DoneEvent,
     UsageEvent(2) \o DeltaEvent,
     UsageEvent(1) \o UsageEvent(2) \o DoneEvent}

\* The task starts on one of the bodies.
SseInit ==
    /\ \E b \in BootBalances : BillingInit(b)
    /\ RouterInit(PlainInputs, {1}, <<"a", "b">>, 0)
    /\ LogIdle /\ RoutesIdle /\ store_call = NoStoreCall /\ calls_left = 0
    /\ upstreams_file = <<>>
    /\ picks = NoPicks
    /\ call_start = <<>>
    /\ \E b \in SseBodies : sse = StartBody(b)

SpecSse == SseInit /\ [][BodyNext]_vars

\* The billing store of a process that may end and be started again.
RestartInit ==
    /\ \E b \in BootBalances : BillingInit(b)
    /\ RouterInit(PlainInputs, {1}, <<"a", "b">>, 0)
    /\ AuxIdle

RestartNext == BillingNext \/ Kill \/ Restart

SpecRestart == RestartInit /\ [][RestartNext]_vars

(***************************************************************************)
(* Claims about the billing store                                          *)
(***************************************************************************)
\* No call is in progress.
Quiescent == \A c \in Callers : bcall[c].pc \in {"idle", "done"}

\* The calls that went through adjust_balance on key k and returned Some.
Adjusted(k) ==
    {c \in Callers : /\ bcall[c].pc = "done"
                     /\ bcall[c].op \in {"adjust", "usage"}
                     /\ bcall[c].key = k
                     /\ bcall[c].arg # 0
                     /\ bcall[c].some}

\* The serial orders of a set of calls.
Orders(S) ==
    {ord \in [1..Cardinality(S) -> S] : \A i, j \in 1..Cardinality(S) : ord[i] = ord[j] => i = j}

RECURSIVE BalanceAfter(_, _, _)
\* The balance after the first i calls of ord, starting from b.
BalanceAfter(b, ord, i) ==
    IF i = 0 THEN b
    ELSE SaturatingAddI64(BalanceAfter(b, ord, i - 1), bcall[ord[i]].arg)

RECURSIVE PlainSum(_, _, _)
\* The same with unbounded addition.
PlainSum(b, ord, i) ==
    IF i = 0 THEN b ELSE PlainSum(b, ord, i - 1) + bcall[ord[i]].arg

Unsaturated(b, ord) ==
    \A i \in 1..Len(ord) : PlainSum(b, ord, i) \in I64Min..I64Max

\* C3: concurrent adjust calls on a key that exists are linearizable and lose
\* no update: once all calls have returned, the values they returned are the
\* successive balances of one serial order of the calls, the balance is the
\* last of them, and (when no addition saturates) it is the initial balance
\* plus the sum of the deltas.
C3_AdjustLinearizable ==
    Quiescent =>
        \A k \in DOMAIN bal0 :
            \E ord \in Orders(Adjusted(k)) :
                /\ \A i \in 1..Len(ord) :
                       bcall[ord[i]].val = BalanceAfter(bal0[k], ord, i)
                /\ balances[k] = BalanceAfter(bal0[k], ord, Len(ord))
                /\ Unsaturated(bal0[k], ord) =>
                       balances[k] = PlainSum(bal0[k], ord, Len(ord))

\* Two adjustments of the same key have returned, one of them after losing a
\* compare-and-swap race.
C3_Witness ==
    /\ Quiescent
    /\ \E c, d \in Adjusted("k1") :
          /\ c # d
          /\ bcall[c].op = "adjust" /\ bcall[d].op = "adjust"
          /\ bcall[c].tries >= 2

\* C4: once all calls have returned and the persister has drained its queue
\* and flushed, the value stored in the billing tree for every key equals the
\* key's in-memory balance.
C4_PersistedConverges ==
    (Quiescent /\ persist_tx = <<>> /\ pending = <<>>) =>
        \A k \in DOMAIN balances : k \in DOMAIN tree /\ tree[k] = balances[k]


(***************************************************************************)
(* Claims about the selector, the pipeline and the circuit breaker         *)
(***************************************************************************)
\* The request task r takes a step from position a to position b.
Moves(r, a, b) == req[r].pc = a /\ req'[r].pc = b

\* The request task r takes a step that leaves position a.
Leaves(r, a) == req[r].pc = a /\ req'[r].pc # a

\* The key k is in the credential list of upstream u.
HasKey(u, k) == \E j \in 1..Len(up[u].keys) : up[u].keys[j] = k

\* C1: whenever select_for_model, called with time now, returns an upstream
\* and a credential, the upstream's cooldown_until_ms and the credential's
\* cooldown_until_ms were both <= now when the selector read them, the
\* credential is in that upstream's credential list and the upstream's model
\* set contains the requested model, in every interleaving with breaker events
\* and other selectors. The upstream's cooldown is read by the step that picks
\* the candidate, the credential's by the step that returns.
C1_SelectionEligible ==
    [][\A r \in slots :
          /\ Moves(r, "sel", "sel_key") =>
                /\ up[req'[r].cand].cooldown_until_ms <= req[r].now
                /\ req[r].model \in up[req'[r].cand].models
          /\ Moves(r, "sel_key", "await") =>
                /\ req'[r].sel_u = req[r].cand
                /\ ks[req'[r].sel_k].cooldown_until_ms <= req[r].now
                /\ HasKey(req'[r].sel_u, req'[r].sel_k)
                /\ req[r].model \in up[req'[r].sel_u].models]_vars

\* C1, witness: a request has been dispatched with the second credential of
\* its upstream while the first one is cooling at the request's time and
\* another request is in its breaker update.
C1_Witness ==
    \E r \in slots, o \in slots :
        /\ r # o
        /\ req[r].pc = "await"
        /\ req[r].sel_k = "b"
        /\ ks["a"].cooldown_until_ms > req[r].now
        /\ req[o].pc \in {"reset_streak", "reset_cooldown", "classify", "store"}

\* C2: select_for_model returns None only if no upstream advertising the model
\* is eligible: if an upstream advertising the model stays eligible for the
\* whole call, the call returns a selection, also when other selectors advance
\* the schedule cursor concurrently.
C2_NoneOnlyIfNoneEligible ==
    [][\A r \in slots :
          (InCall(req[r]) /\ req'[r].pc \in {"done", "tee"}) => elig[r] = {}]_vars

\* C5: no request is dispatched unless it passed, in this order, the
\* proxy-token check (when the configured set is non-empty), the presence of a
\* billing key, the existence of that key in the billing store and a balance
\* >= 0 at the time it was read; a request failing a check is answered 401 with
\* code proxy_unauthorized, api_key_required, api_key_invalid or
\* balance_insufficient respectively; a balance of exactly 0 is admitted.
C5_AuthGate ==
    /\ [][\A r \in slots :
            Leaves(r, "handle") =>
               LET q == req[r]
                   token_ok == \/ cfg.proxy_tokens = {}
                               \/ q.token # <<>> /\ q.token[1] \in cfg.proxy_tokens
                   present == \/ q.x_api_key # <<>> /\ q.x_api_key[1] # ""
                              \/ /\ q.authorization # <<>>
                                 /\ \/ q.authorization[1].scheme # ""
                                    \/ q.authorization[1].cred # ""
                   key == ExtractApiKey(q.x_api_key, q.authorization)
                   known == present /\ key[1] \in DOMAIN balances
                   funded == known /\ balances[key[1]] >= 0
                   Answered(code) == /\ req'[r].pc = "done"
                                     /\ req'[r].resp = 401
                                     /\ req'[r].code = code
               IN  /\ ~token_ok => Answered("proxy_unauthorized")
                   /\ token_ok /\ ~present => Answered("api_key_required")
                   /\ token_ok /\ present /\ ~known => Answered("api_key_invalid")
                   /\ token_ok /\ known /\ ~funded => Answered("balance_insufficient")
                   /\ token_ok /\ funded =>
                         /\ req'[r].pc = "forward"
                         /\ req'[r].billing_key = key[1]]_vars
    /\ [][\A r \in slots :
            /\ (req'[r].pc = "forward" /\ req[r].pc # "forward") =>
                  req[r].pc = "handle"
            /\ req'[r].attempts > req[r].attempts => req[r].pc = "sel_key"
            /\ (req'[r].pc = "sel_key" /\ req[r].pc # "sel_key") =>
                  req[r].pc = "sel"
            /\ (Leaves(r, "idle") \/ Leaves(r, "done")) => req'[r].pc = "handle"
            /\ (req'[r].pc = "sel" /\ req[r].pc # "sel") =>
                  req[r].pc \in {"forward", "sel_key", "classify", "store"}
            /\ (req'[r].pc \in {"classify", "store"} /\ req[r].pc # req'[r].pc) =>
                  req[r].attempts > 0]_vars

\* C5, witness: a request whose key had a balance of exactly 0 when it was
\* read has been dispatched.
C5_Witness ==
    \E r \in slots :
        /\ req[r].pc = "await"
        /\ req[r].billing_key = "k1"
        /\ balances["k1"] = 0

\* The progress of a request in flight: its dispatches, then its position
\* within the current attempt.
Progress(q) ==
    10 * q.attempts +
    (CASE q.pc = "forward" -> 0
       [] q.pc = "await" -> 1
       [] q.pc = "reset_streak" -> 2
       [] q.pc = "reset_cooldown" -> 3
       [] q.pc = "classify" -> 4
       [] q.pc = "store" -> 5
       [] q.pc = "sel" -> 6 + 2 * q.sel_i
       [] q.pc = "sel_key" -> 7 + 2 * q.sel_i
       [] OTHER -> 0)

InFlight(q) ==
    q.pc \in {"forward", "sel", "sel_key", "await", "reset_streak",
              "reset_cooldown", "classify", "store"}

C7_RateLimitFailover ==
    [][\A r \in slots :
          /\ (InCall(req[r]) /\ req[r].attempts > 0 /\ elig[r] # {}) =>
                req'[r].pc \notin {"done", "tee"}
          /\ (req[r].pc \in {"classify", "store"} /\ req'[r].pc = "tee") =>
                req'[r].resp = req[r].status
          /\ (Leaves(r, "store") /\ req[r].outcome = "response"
                                 /\ req[r].status = 429) =>
                ks'[req[r].sel_k].cooldown_until_ms >=
                    req[r].now + cfg.ban.rate_limit_ms]_vars

\* The bounds of C8 for a subject whose cooldown is until and whose streak is
\* streak after an event of class base observed at now_ms.
WithinBackoff(until, streak, base, now_ms) ==
    /\ until >= SaturatingAddU64(now_ms, base)
    /\ until <= SaturatingAddU64(now_ms,
                    SaturatingMulU64(base,
                        Pow2(Min(streak - 1, Min(cfg.ban.max_backoff_pow, 30)))))

\* C8: after any breaker event on a subject (credential ban on 429/401/403,
\* upstream ban on 5xx, timeout or network error) observed with time now and
\* class base, the subject's cooldown_until_ms is >= now + base and
\* <= now + base * 2^min(streak - 1, max_backoff_pow), with max_backoff_pow
\* capped at 30 and saturating arithmetic, streak being the subject's streak
\* after the event; in all concurrent orderings of breaker events. The bounds
\* are asked only when that streak is at least 1, where the formula of the
\* backoff is defined.
C8_CooldownBounds ==
    [][\A r \in slots :
          Leaves(r, "store") =>
             LET q == req[r]
                 c == EventClass(q)
             IN  IF c.subject = "key"
                 THEN ks'[q.sel_k].fail_streak >= 1 =>
                         WithinBackoff(ks'[q.sel_k].cooldown_until_ms,
                                       ks'[q.sel_k].fail_streak, c.base, q.now)
                 ELSE up'[q.sel_u].fail_streak >= 1 =>
                         WithinBackoff(up'[q.sel_u].cooldown_until_ms,
                                       up'[q.sel_u].fail_streak, c.base, q.now)]_vars

\* C9: after k consecutive failure outcomes on one upstream (5xx responses,
\* timeouts or network errors, with no successful response in between) the
\* upstream's fail_streak is k and the cooldown installed by the k-th failure
\* is base * 2^min(k - 1, max_backoff_pow).
C9_StreakCountsConsecutive ==
    [][\A r \in slots :
          (Leaves(r, "store") /\ EventClass(req[r]).subject = "upstream") =>
             LET q == req[r]
                 k == consec[q.sel_u]
                 base == EventClass(q).base
             IN  /\ up'[q.sel_u].fail_streak = k
                 /\ up'[q.sel_u].cooldown_until_ms =
                       SaturatingAddU64(q.now,
                           SaturatingMulU64(base,
                               Pow2(Min(k - 1, Min(cfg.ban.max_backoff_pow, 30)))))]_vars

\* C10: a response with status 429 (resp. 401 or 403) increments the selected
\* credential's streak by one and sets its cooldown_until_ms to
\* now + rate_limit_ms (resp. auth_error_ms) * 2^min(streak - 1,
\* max_backoff_pow); a response with any status other than 429, 401, 403 and
\* 5xx sets the credential's streak to 0 and leaves its cooldown_until_ms
\* unchanged; after any response that is not 5xx the upstream's streak and
\* cooldown are 0.
C10_CredentialOutcomeMapping ==
    [][\A r \in slots :
          LET q == req[r]
              k == q.sel_k
              u == q.sel_u
              banning == q.outcome = "response" /\ q.status \in {429, 401, 403}
              plain == /\ q.outcome = "response"
                       /\ q.status \notin {429, 401, 403}
                       /\ ~(q.status >= 500 /\ q.status <= 599)
              base == IF q.status = 429 THEN cfg.ban.rate_limit_ms
                      ELSE cfg.ban.auth_error_ms
          IN  /\ (Leaves(r, "classify") /\ banning) =>
                    /\ ks'[k].fail_streak = ks[k].fail_streak + 1
                    /\ ks'[k].cooldown_until_ms = ks[k].cooldown_until_ms
              /\ (Leaves(r, "store") /\ banning) =>
                    /\ ks'[k].fail_streak = ks[k].fail_streak
                    /\ ks'[k].cooldown_until_ms =
                          q.now + base * Pow2(Min(ks'[k].fail_streak - 1,
                                                  Min(cfg.ban.max_backoff_pow, 30)))
                    /\ up'[u].fail_streak = 0
                    /\ up'[u].cooldown_until_ms = 0
              /\ (Leaves(r, "classify") /\ plain) =>
                    /\ ks'[k].fail_streak = 0
                    /\ ks'[k].cooldown_until_ms = ks[k].cooldown_until_ms
                    /\ up'[u].fail_streak = 0
                    /\ up'[u].cooldown_until_ms = 0]_vars

\* C10, witness: a credential has been banned twice in a row by 429 responses,
\* the second at time 1, and another by a 403 response.
C10_Witness ==
    \E k \in KeyIds, j \in KeyIds :
        /\ ks[k].fail_streak = 2
        /\ ks[k].cooldown_until_ms = 1 + cfg.ban.rate_limit_ms * 2
        /\ ks[j].fail_streak = 1
        /\ ks[j].cooldown_until_ms = cfg.ban.auth_error_ms
        /\ \E r \in slots : req[r].pc = "tee" /\ req[r].resp = 403

\* The breaker event of request record q is of the upstream class: a 5xx
\* response, a timeout or a transport error.
UpstreamClass(q) ==
    \/ q.outcome \in {"timeout", "network_error"}
    \/ q.outcome = "response" /\ q.status >= 500 /\ q.status <= 599

\* C11: a 5xx response, a timeout or a transport error bumps the upstream's
\* streak and sets the upstream's cooldown with base server_error_ms (5xx) or
\* network_error_ms (timeout, transport error); the selected credential's
\* cooldown_until_ms and fail_streak, and every other credential's, stay as
\* they were through the whole event; the caller receives the upstream's 5xx
\* response, 504 upstream_timeout or 502 upstream_error respectively.
C11_UpstreamFailureFrame ==
    [][\A r \in slots :
          LET q == req[r]
              u == q.sel_u
              base == IF q.outcome = "response" THEN cfg.ban.server_error_ms
                      ELSE cfg.ban.network_error_ms
              during == q.pc \in {"reset_streak", "reset_cooldown", "classify", "store"}
          IN  (during /\ UpstreamClass(q) /\ req'[r] # q) =>
                 /\ ks' = ks
                 /\ \A o \in UpIds \ {u} : up'[o] = up[o]
                 /\ Leaves(r, "classify") =>
                       /\ up'[u].fail_streak = up[u].fail_streak + 1
                       /\ req'[r].pc = "store"
                 /\ Leaves(r, "store") =>
                       /\ up'[u].fail_streak = up[u].fail_streak
                       /\ up'[u].fail_streak >= 1
                       /\ up'[u].cooldown_until_ms =
                             q.now + base * Pow2(Min(up'[u].fail_streak - 1,
                                                     Min(cfg.ban.max_backoff_pow, 30)))
                       /\ q.outcome = "response" =>
                             req'[r].pc = "tee" /\ req'[r].resp = q.status
                       /\ q.outcome = "timeout" =>
                             /\ req'[r].pc = "done"
                             /\ req'[r].resp = 504
                             /\ req'[r].code = "upstream_timeout"
                       /\ q.outcome = "network_error" =>
                             /\ req'[r].pc = "done"
                             /\ req'[r].resp = 502
                             /\ req'[r].code = "upstream_error"]_vars

\* C11, witness: a second timeout in a row has banned upstream u1 at time 1
\* while a credential banned by an earlier 429 keeps its streak and cooldown,
\* and the caller has been answered 504.
C11_Witness ==
    /\ up["u1"].fail_streak = 2
    /\ up["u1"].cooldown_until_ms = 1 + cfg.ban.network_error_ms * 2
    /\ \E k \in KeyIds : ks[k].fail_streak = 1 /\ ks[k].cooldown_until_ms = 1
    /\ \E r \in slots : req[r].pc = "done" /\ req[r].resp = 504

\* C12: after an upstream answered 5xx to a request observed at time now,
\* every selection made with a time earlier than now + server_error_ms skips
\* that upstream (so that a request for a model only it advertises is answered
\* 503 model_unavailable without contacting it), in every interleaving with
\* other requests that were in flight on that upstream. The selections asked
\* are those that read the upstream's cooldown after the breaker event of the
\* 5xx response has ended.
C12_OutageSkipsUpstream ==
    [][\A r \in slots :
          Moves(r, "sel", "sel_key") => req[r].now >= outage[req'[r].cand]]_vars

(***************************************************************************)
(* Claims about the snapshot and the admin API                             *)
(***************************************************************************)

\* The weight an upstream configured with weight w (<<>> when missing) is
\* to have.
ExpectedWeight(w) ==
    IF w = <<>> THEN 1 ELSE IF w[1] < 1 THEN 1 ELSE IF w[1] > 100 THEN 100 ELSE w[1]

RECURSIVE SumWeights(_)
\* The sum of the weights of the first n live upstreams.
SumWeights(n) == IF n = 0 THEN 0 ELSE up[upstreams[n]].weight + SumWeights(n - 1)

\* The number of entries of the live schedule that are idx.
Occurrences(idx) == Cardinality({j \in 1..Len(schedule) : schedule[j] = idx})

\* C13: in the live snapshot, after any sequence of add, update and delete
\* operations, the weight of each upstream is its configured weight clamped
\* to [1, 100] (missing counts as 1), the schedule holds index i as many
\* times as upstream i weighs, and the schedule is as long as the sum of the
\* weights.
C13_WeightsAndSchedule ==
    /\ \A i \in 1..Len(upstreams) :
          /\ up[upstreams[i]].weight = ExpectedWeight(configured[up[upstreams[i]].id])
          /\ Occurrences(i - 1) = up[upstreams[i]].weight
    /\ Len(schedule) = SumWeights(Len(upstreams))

\* C13 witness: a snapshot built by an admin operation holds an upstream
\* configured with weight 101 and one configured with weight 0.
C13_Witness ==
    /\ gen > 0
    /\ \E i, j \in 1..Len(upstreams) :
          /\ configured[up[upstreams[i]].id] = <<101>> /\ up[upstreams[i]].weight = 100
          /\ configured[up[upstreams[j]].id] = <<0>> /\ up[upstreams[j]].weight = 1
    /\ Len(schedule) >= 101

\* The live snapshot is well formed.
WellFormed ==
    /\ Len(upstreams) >= 1
    /\ \A i, j \in 1..Len(upstreams) :
          up[upstreams[i]].id = up[upstreams[j]].id => i = j
    /\ DOMAIN upstream_index = {up[upstreams[i]].id : i \in 1..Len(upstreams)}
    /\ \A i \in 1..Len(upstreams) : upstream_index[up[upstreams[i]].id] = i - 1
    /\ \A j \in 1..Len(schedule) : schedule[j] \in 0..(Len(upstreams) - 1)

\* The admin request of task a is rejected by this step.
Rejected(a) == adm[a].pc # "idle" /\ adm'[a].pc = "idle" /\ adm'[a].res = 400

\* C14: every live snapshot is well formed (distinct ids, upstream_index
\* maps each id to its position, schedule entries are valid indices, at
\* least one upstream), and a rejected operation, such as adding an id that
\* exists or deleting the last upstream, leaves the snapshot as it was.
C14_SnapshotWellFormed ==
    /\ WellFormed
    /\ [][/\ WellFormed'
          /\ \A a \in admins :
                Rejected(a) => UNCHANGED <<upstreams, upstream_index, schedule>>]_vars

\* C14 witness: after an operation removed all upstreams but one, an
\* operation was rejected.
C14_Witness ==
    /\ gen > 0
    /\ Len(upstreams) = 1
    /\ \E a \in admins : adm[a].pc = "idle" /\ adm[a].res = 400

\* C15: a request in flight when an admin mutation swaps the snapshot
\* completes on the old snapshot: every upstream attempt of the request,
\* its 429 retries included, targets an upstream of the snapshot that was
\* live when the request was first routed.
C15_InFlightOnOldSnapshot ==
    [][\A r \in slots :
          Moves(r, "sel_key", "await") => req'[r].sel_u \in routed[r]]_vars

\* The step ends the task that forwards the body of request r's response.
DebitStep(r) == req[r].pc = "tee" /\ req[r].body \in BodyEnds /\ req'[r].pc = "done"

\* The total_tokens of the usage found in the response forwarded to request
\* r's caller, 0 when none was found.
TotalTokens(r) == IF req[r].usage = <<>> THEN 0 ELSE req[r].usage[1]

CreateWinners(k) ==
    {c \in Callers : /\ bcall[c].op = "create" /\ bcall[c].key = k
                     /\ \/ bcall[c].pc = "create_send"
                        \/ bcall[c].pc = "done" /\ bcall[c].ok}
CreateLosers(k) ==
    {c \in Callers : /\ bcall[c].op = "create" /\ bcall[c].key = k
                     /\ bcall[c].pc = "done" /\ ~bcall[c].ok}

\* C17: create_key of a key that exists returns false and leaves its balance
\* as it was; among the concurrent create_key calls of one new key exactly one
\* returns true, and its balance is the one installed; a key of the
\* in-memory map is never removed.
C17_CreateExclusive ==
    /\ [](\A k \in BKeys :
            /\ Cardinality(CreateWinners(k)) <= 1
            /\ k \in DOMAIN bal0 => CreateWinners(k) = {}
            /\ (k \notin DOMAIN bal0 /\ CreateLosers(k) # {}) =>
                  Cardinality(CreateWinners(k)) = 1)
    /\ [][\A c \in Callers :
            (bcall[c].pc = "idle" /\ bcall'[c].op = "create") =>
               LET k == bcall'[c].key IN
               IF k \in DOMAIN balances
               THEN /\ balances' = balances
                    /\ bcall'[c].pc = "done" /\ ~bcall'[c].ok
               ELSE /\ balances' = (k :> bcall'[c].arg) @@ balances
                    /\ bcall'[c].pc = "create_send"]_vars
    /\ [][\A c \in Callers :
            (bcall[c].pc = "create_send" /\ bcall'[c].pc = "done") => bcall'[c].ok]_vars
    /\ [][DOMAIN balances \subseteq DOMAIN balances']_vars

\* C17 witness: two calls created the new key k2 with different balances;
\* one returned true, the other false, and the balance is the first one's.
C17_Witness ==
    /\ \E c, d \in Callers :
          /\ bcall[c].op = "create" /\ bcall[c].key = "k2" /\ bcall[c].pc = "done"
          /\ bcall[d].op = "create" /\ bcall[d].key = "k2" /\ bcall[d].pc = "done"
          /\ bcall[c].ok /\ ~bcall[d].ok
          /\ bcall[c].arg # bcall[d].arg
          /\ balances["k2"] = bcall[c].arg

\* C18: the balances persist across a restart: when the process is stopped
\* after every call has returned and is started again, get_balance of each key
\* returns the balance of the last Set enqueued for the key (after create with
\* balance 50 and fifty sequential adjustments by -3: -100).
C18_BalancesSurviveRestart ==
    [][(/\ persister \in {"exited", "killed"}
        /\ persister' = "running"
        /\ \A c \in Callers : bcall[c].pc \in {"idle", "done"}) =>
          \A k \in DOMAIN last_set :
             k \in DOMAIN balances' /\ balances'[k] = last_set[k]]_vars

\* The request carries an X-Admin-Token header that is a configured token.
HasAdminToken(op) == op.token \in {<<t>> : t \in cfg.admin_tokens}

\* The upstream, credential, routing-table and billing state.
Protected ==
    <<upstreams, schedule, upstream_index, up, ks, routes, keystore,
      balances, persist_tx, pending, tree>>

\* C19: a request under /admin/api/ without a configured admin token reaches
\* no endpoint handler, whatever its method and path: only requests with the
\* token are ever handled, only a request being handled changes the upstream,
\* credential, routing-table or billing state, and a request that is answered
\* on arrival is answered 401 and leaves that state as it was.
C19_AdminTokenRequired ==
    /\ [](\A a \in admins : adm[a].pc # "idle" => HasAdminToken(adm[a].op))
    /\ [][/\ Protected' # Protected => \E a \in admins : adm[a].pc # "idle"
          /\ \A a \in admins :
                (adm[a].pc = "idle" /\ adm'[a].pc = "idle" /\ adm'[a] # adm[a]) =>
                   adm'[a].res = 401 /\ Protected' = Protected]_vars

\* A request that would create a billing key has been answered 401.
C19_Witness ==
    \E a \in admins :
       /\ adm[a].pc = "idle"
       /\ adm[a].res = 401
       /\ adm[a].op.kind = "billing_create"
       /\ "k2" \notin DOMAIN balances

\* The authenticated requests whose handler has not exited.
Handled == {r \in slots : InForward(req[r])}

\* C20: requests_inflight is the number of authenticated requests whose
\* handler has not exited, whether the handler returned normally, returned an
\* error or was aborted when the client disconnected; it is 0 when no request
\* is being handled.
C20_InflightCount == requests_inflight = Cardinality(Handled)

(***************************************************************************)
(* Claims about the request log and the metrics                            *)
(***************************************************************************)
\* The newest n entries of q, oldest first.
Newest(q, n) == SubSeq(q, Len(q) - Min(n, Len(q)) + 1, Len(q))

\* C21: the recent-request buffer holds at most 5000 entries, the most
\* recently recorded ones in the order of recording, and recent(limit) returns
\* the min(limit, length) newest entries of the buffer, newest first.
C21_RecentRequests ==
    /\ Len(entries) <= 5000
    /\ entries = Newest(recorded, 5000)
    /\ LET held == Newest(SubSeq(recorded, 1, recent_out.at), 5000)
           n == Min(recent_out.limit, Len(held))
       IN  /\ Len(recent_out.list) = n
           /\ \A i \in 1..n : recent_out.list[i] = held[Len(held) + 1 - i]

\* More than 5000 entries have been recorded, the last two of them different,
\* and a query of limit 2 has been answered since.
C21_Witness ==
    /\ Len(recorded) > 5000
    /\ recent_out.at = Len(recorded)
    /\ recent_out.limit = 2
    /\ Len(recent_out.list) = 2
    /\ recent_out.list[1] # recent_out.list[2]

\* The class the claim gives a status: <<success, failure, ignored>>.
ExpectedClass(status) ==
    <<IF status >= 200 /\ status <= 299 THEN 1 ELSE 0,
      IF (status < 200 \/ status > 299) /\ status # 404 THEN 1 ELSE 0,
      IF status = 404 THEN 1 ELSE 0>>

\* The buckets of a window: at most cap of them, with increasing starts, each
\* with total = success + failure + ignored.
WindowOk(buckets, cap) ==
    /\ Len(buckets) <= cap
    /\ \A i \in 1..(Len(buckets) - 1) : buckets[i].ts_ms < buckets[i + 1].ts_ms
    /\ \A i \in 1..Len(buckets) :
          buckets[i].total = buckets[i].success + buckets[i].failure + buckets[i].ignored

\* C22: classify_status gives every status in 0..1000 exactly one class
\* (200..=299 success, 404 ignored, everything else failure); in every bucket
\* of every window total = success + failure + ignored, and each window keeps
\* at most its cap of buckets (60, 48, 30) with strictly increasing starts.
C22_MetricsBuckets ==
    /\ \A status \in 0..999 : ClassifyStatus(status) = ExpectedClass(status)
    /\ WindowOk(metrics.minute, 60)
    /\ WindowOk(metrics.hour, 48)
    /\ WindowOk(metrics.day, 30)

\* Every window is at its cap, and a success and an ignored request have
\* been counted in the last bucket of the day window.
C22_Witness ==
    /\ Len(metrics.minute) = 60
    /\ Len(metrics.hour) = 48
    /\ Len(metrics.day) = 30
    /\ LET last == metrics.day[30] IN
       last.total = 2 /\ last.success = 1 /\ last.ignored = 1

(***************************************************************************)
(* Claims about the model routes                                           *)
(***************************************************************************)
RECURSIVE NoBlanks(_)
\* The string of the characters of w that are not white space (the names of
\* the requests have white space at their ends only).
NoBlanks(w) ==
    IF w = <<>> THEN ""
    ELSE IF Head(w) \in {" ", "\t"} THEN NoBlanks(Tail(w))
    ELSE Head(w) \o NoBlanks(Tail(w))

\* The routes the claim expects of the body R: per upstream the set of its
\* trimmed names that are not blank.
ExpectedRoutes(R) ==
    [id \in DOMAIN R |-> {NoBlanks(R[id][i]) : i \in 1..Len(R[id])} \ {""}]

\* The models map recomputed from the upstreams map rts.
ExpectedModels(rts) ==
    [m \in UNION {rts[id] : id \in DOMAIN rts} |-> {id \in DOMAIN rts : m \in rts[id]}]

\* C23: a save of R that succeeds leaves the file with R (names trimmed,
\* blanks dropped, duplicates removed) and gives each live upstream the models
\* of its list in R, none when R does not name it; get_model_routes after it
\* returns R with the models map recomputed from R; and a save that names an
\* unknown upstream id fails and leaves the file and every model set as they
\* were.
C23_RoutesRoundTrip ==
    [][\A a \in admins :
          /\ (adm[a].pc = "put_write" /\ adm'[a].pc = "idle") =>
                LET R == ExpectedRoutes(adm[a].op.body) IN
                /\ adm'[a].res = 200
                /\ routes' = R
                /\ \A i \in 1..Len(upstreams') :
                      LET u == up'[upstreams'[i]] IN
                      u.models = IF u.id \in DOMAIN R THEN R[u.id] ELSE {}
          /\ (adm[a].op.kind = "get_routes" /\ adm'[a].pc = "idle" /\ last_put # <<>>) =>
                LET R == ExpectedRoutes(last_put[1]) IN
                /\ routes_out'.upstreams = R
                /\ routes_out'.models = ExpectedModels(R)
          /\ (adm[a].op.kind = "put_routes"
              /\ \E id \in DOMAIN adm[a].op.body : id \notin DOMAIN upstream_index) =>
                /\ adm'[a].pc = "idle"
                /\ adm'[a].res = 400
                /\ UNCHANGED <<routes, route_models, up>>]_vars

\* The routes have been saved from a body with blanks and duplicates and read
\* back, and a save that names the unknown upstream u3 has been refused.
C23_Witness ==
    /\ last_put # <<>>
    /\ DOMAIN last_put[1] = {"u1"}
    /\ Len(last_put[1]["u1"]) = 5
    /\ routes_out.upstreams = ("u1" :> {"m", "m2"})
    /\ routes_out.models = ("m" :> {"u1"}) @@ ("m2" :> {"u1"})
    /\ \E a \in admins : adm[a].op.kind = "put_routes" /\ adm[a].res = 400

(***************************************************************************)
(* Claims about the key store                                              *)
(***************************************************************************)
\* The elements of the list K.
Elements(K) == {K[i] : i \in 1..Len(K)}

\* The list has no element twice.
Distinct(list) == \A i, j \in 1..Len(list) : list[i] = list[j] => i = j

\* C24: replace_keys(U, K) followed by load_all_keys(U) returns exactly the
\* distinct elements of K, whatever U held before, and the keys of the other
\* upstreams are as before.
C24_ReplaceThenLoad ==
    [][(store_call' # store_call /\ store_call'.op = "replace") =>
          LET U == store_call'.id
              loaded == LoadAllKeys(keystore', U)
          IN  /\ Elements(loaded) = Elements(store_call'.keys)
              /\ Distinct(loaded)
              /\ \A id \in DOMAIN keystore \ {U} :
                    LoadAllKeys(keystore', id) = LoadAllKeys(keystore, id)]_vars

\* The keys a and b of u1 have been replaced by the list c, e, and u2 holds
\* its key c as before.
C24_Witness ==
    /\ store_call.op = "replace"
    /\ store_call.id = "u1"
    /\ store_call.before = <<"a", "b">>
    /\ keystore["u1"] = <<"c", "e">>
    /\ keystore["u2"] = <<"c">>

\* C25: add_keys(U, K) reports inserted + existed = |K|, with inserted the
\* number of elements of K not stored before the call, and stores K beside
\* what was stored; a second call with the same K reports inserted = 0 and
\* existed = |K| and leaves the stored set as the first call left it.
C25_AddIdempotent ==
    [][(store_call' # store_call /\ store_call'.op = "add") =>
          LET U == store_call'.id
              K == store_call'.keys
              second == AddKeys(keystore'[U], K)
          IN  /\ store_call'.inserted + store_call'.existed = Len(K)
              /\ store_call'.inserted = Cardinality(Elements(K) \ Elements(keystore[U]))
              /\ Elements(keystore'[U]) = Elements(keystore[U]) \cup Elements(K)
              /\ second.inserted = 0
              /\ second.existed = Len(K)
              /\ second.tree = keystore'[U]]_vars

\* The list b, a, b has been added to an upstream that held a: one key was
\* inserted and two existed.
C25_Witness ==
    /\ store_call.op = "add"
    /\ store_call.keys = <<"b", "a", "b">>
    /\ store_call.before = <<"a">>
    /\ store_call.inserted = 1
    /\ store_call.existed = 2
    /\ keystore[store_call.id] = <<"a", "b">>


\* The values the request of q's current attempt carries under the name name.
ValuesOf(q, name) ==
    {i \in DOMAIN q.out_req.headers : q.out_req.headers[i][1] = name}

\* C26: every request sent to an upstream carries exactly one Authorization
\* header, whose value is "Bearer " followed by the credential selected for
\* that attempt (the first one or a retry), and none of the headers
\* Connection, Host, Proxy-Connection, Proxy-Authenticate,
\* Proxy-Authorization, TE, Trailer, Transfer-Encoding, Upgrade, X-Proxy-Token
\* and X-Admin-Token, whatever the client sent.
C26_UpstreamHeaders ==
    \A r \in slots :
        LET q == req[r] IN
        q.out_req # NoRequest =>
            /\ q.out_req.key = q.sel_k
            /\ Cardinality(ValuesOf(q, "authorization")) = 1
            /\ \A i \in ValuesOf(q, "authorization") :
                  q.out_req.headers[i][2] = "Bearer " \o q.sel_k
            /\ \A name \in {"connection", "host", "proxy-connection",
                            "proxy-authenticate", "proxy-authorization", "te",
                            "trailer", "transfer-encoding", "upgrade",
                            "x-proxy-token", "x-admin-token"} :
                  ValuesOf(q, name) = {}

\* C26: a retry has sent the request of a client that gave two Authorization
\* headers and every header that is to be removed, for another credential than
\* the first attempt's; the headers forward leaves alone went with it.
C26_Witness ==
    \E r \in slots :
        LET q == req[r] IN
        /\ q.pc = "await"
        /\ q.retry_count = 1
        /\ q.sel_k # "a"
        /\ Cardinality({i \in DOMAIN q.headers : q.headers[i][1] = "authorization"}) = 2
        /\ \E i \in DOMAIN q.headers : q.headers[i][1] = "x-admin-token"
        /\ ValuesOf(q, "accept") # {}


\* C27: the queue between the billing operations and the persister thread is
\* bounded: the Set messages that wait never exceed a fixed capacity, which the
\* senders cannot pass. The senders of this model stop only where the
\* exploration stops, at MaxQueue waiting messages; a capacity of the channel
\* would keep the queue below that length.
C27_QueueBounded == Len(persist_tx) < MaxQueue


\* C28: a retry passes the selector with the cooldowns the attempt before it
\* installed: the credential that has just returned 429 is not the one the
\* following retry of the same request selects (rate_limit_ms is positive and
\* no credentials are reloaded), whatever other requests do with the same
\* credential in between; and when the selector returns None the caller
\* receives the 429 response.
C28_RetrySkipsBanned ==
    [][\A r \in slots :
          /\ (req[r].pc = "sel_key" /\ req[r].attempts > 0 /\ req'[r].pc = "await")
                => req'[r].sel_k # req[r].sel_k
          /\ (InCall(req[r]) /\ req[r].attempts > 0 /\ req'[r].pc = "tee")
                => req'[r].resp = 429]_vars


\* The total of the last usage object of the body b, or none.
LastUsage(b) ==
    LET at == {i \in DOMAIN b : b[i] = "{u"} IN
    IF at = {} THEN <<>>
    ELSE LET last == CHOOSE i \in at : \A j \in at : j <= i
         IN  <<IF b[last + 1] = "1}" THEN 1 ELSE 2>>

\* C29: in SSE mode the last usage block wins: however the event stream is
\* split into chunks, the usage recorded and debited when the body has ended
\* is the one of the last data line of the whole body that carries a usage
\* object, also when two such events arrive in different chunks.
C29_LastUsageWins == sse.pc = "done" => sse.debited = LastUsage(sse.body)


\* The bodies that ask for a stream, and those whose stream_options has
\* include_usage = true.
StreamBodies ==
    {Encode(Json(<<TRUE>>, o)) : o \in {"absent", "not_object", "empty", "true", "false"}}

UsageBodies == {Encode(Json(st, "true")) : st \in {<<>>, <<TRUE>>, <<FALSE>>}}

\* C30: usage injection follows the chosen upstream: the body sent in an
\* attempt has stream_options.include_usage = true whenever the request is a
\* streaming /v1/chat/completions request and the upstream of that attempt is
\* in the usage-inject set; a body that has it by injection goes only to such
\* an upstream for such a request, with a Content-Length of its own length;
\* this also after a 429 retry that moved to another upstream.
C30_InjectionFollowsUpstream ==
    \A r \in slots :
        LET q == req[r]
            body == q.out_req.body
            asked == /\ body \in StreamBodies
                     /\ q.chat
                     /\ cfg.usage_inject_upstreams # <<>>
                     /\ q.out_req.upstream \in cfg.usage_inject_upstreams[1]
        IN  q.out_req # NoRequest =>
                /\ asked => body \in UsageBodies
                /\ (q.injected /\ body \in UsageBodies) =>
                      /\ asked
                      /\ \A i \in ValuesOf(q, "content-length") :
                            q.out_req.headers[i][2] = ToString(Len(body))

\* The breaker state of the upstream object o and of its credentials is that
\* of construction.
Unbanned(upv, ksv, o) ==
    /\ upv[o].cooldown_until_ms = 0
    /\ upv[o].fail_streak = 0
    /\ \A i \in 1..Len(upv[o].keys) :
          /\ ksv[upv[o].keys[i]].cooldown_until_ms = 0
          /\ ksv[upv[o].keys[i]].fail_streak = 0

\* The admin task a stores the list of a POST keys request.
PostKeysStores(a) ==
    /\ adm[a].op.kind = "add_keys"
    /\ adm[a].pc = "keys_swap"
    /\ adm'[a].pc # "keys_swap"

C32_DebitFromNonNegative ==
    [][\A r \in slots :
          DebitStep(r) /\ balances'[req[r].billing_key] # balances[req[r].billing_key] =>
             balances[req[r].billing_key] >= 0]_vars

\* The request of admin task a is an upstream deletion whose
\* cleanup_model_routes returns in this step.
DeletionCleans(a) ==
    /\ adm[a].op.kind = "delete"
    /\ adm[a].pc = "cleanup"
    /\ adm'[a].pc # "cleanup"

FairWindow(s, n) ==
    /\ s + n - 1 <= Len(picks.log)
    /\ \A j \in s..(s + n - 1) :
          picks.log[j].ok /\ \E i \in 1..Len(upstreams) : picks.log[j].u = upstreams[i]

\* The selections s .. s + n - 1 return each upstream of the live snapshot as
\* many times as it weighs.
ByWeight(s, n) ==
    \A i \in 1..Len(upstreams) :
       Cardinality({j \in s..(s + n - 1) : picks.log[j].u = upstreams[i]}) =
          up[upstreams[i]].weight

\* C34: with one selector, any Len(schedule) consecutive selections made
\* while every upstream serves the model, is out of cooldown and holds a
\* credential out of cooldown return each upstream as many times as it
\* weighs; and every selection made under these conditions has advanced the
\* cursor by one slot.
C34_WeightedRoundRobin ==
    /\ \A s \in 1..Len(picks.log) : FairWindow(s, Len(schedule)) => ByWeight(s, Len(schedule))
    /\ \A j \in 1..Len(picks.log) : picks.log[j].ok => picks.log[j].slots = 1

\* C34 (witness): u1 weighs 2 and u2 weighs 1; three consecutive selections
\* have been made on this snapshot while every upstream was eligible, the
\* last of them a retry after a 429.
C34_Witness ==
    /\ Len(schedule) = 3
    /\ Len(picks.log) >= 3
    /\ FairWindow(Len(picks.log) - 2, 3)
    /\ \E r \in slots : req[r].pc = "await" /\ req[r].retry_count >= 1

\* The credential strings of the in-memory list of upstream object o.
Credentials(o) == {CredentialOf(ks, up[o].keys[i]) : i \in 1..Len(up[o].keys)}

\* C35: in every state the in-memory credential list of each live upstream
\* holds no two entries with the same credential string.
C35_NoDuplicateCredentials ==
    \A n \in 1..Len(upstreams) :
       \A i, j \in 1..Len(up[upstreams[n]].keys) :
          CredentialOf(ks, up[upstreams[n]].keys[i]) =
             CredentialOf(ks, up[upstreams[n]].keys[j]) => i = j

\* C36: once every admin request has completed, the credential strings of each
\* live upstream's in-memory list are the keys stored for that upstream.
C36_MemoryMirrorsStore ==
    (\A a \in DOMAIN adm : adm[a].pc = "idle") =>
       \A n \in 1..Len(upstreams) :
          Credentials(upstreams[n]) = Range(keystore[up[upstreams[n]].id])

\* C37: no request sent to an upstream carries the caller's billing key as the
\* value, or as the credential of the value, of any header, whether the key
\* was presented in Authorization or in X-API-Key.
C37_BillingKeyStaysHere ==
    \A r \in slots :
        LET q == req[r] IN
        q.out_req # NoRequest =>
            \A i \in DOMAIN q.out_req.headers :
               /\ q.out_req.headers[i][2] # q.billing_key
               /\ q.out_req.headers[i][2] # "Bearer " \o q.billing_key

\* C38: when add_upstream, update_upstream or delete_upstream has returned an
\* error, the configurations of the live snapshot and upstreams.json are what
\* they were when the request arrived.
C38_MutationsAllOrNothing ==
    \A a \in DOMAIN call_start :
       (adm[a].pc = "idle" /\ adm[a].res = 400) =>
          /\ CurrentUpstreamConfigs = call_start[a].live
          /\ upstreams_file = call_start[a].file

\* The ids of a list of upstream configurations.
ConfigIds(configs) == {configs[i].id : i \in 1..Len(configs)}

\* C39: when two add_upstream calls for distinct new ids have both returned
\* success, the live snapshot and upstreams.json contain both upstreams.
C39_NoAddLost ==
    \A a, b \in DOMAIN call_start :
       LET x == call_start[a].op
           y == call_start[b].op
       IN  (/\ x.kind = "add" /\ y.kind = "add" /\ x.id # y.id
            /\ adm[a].res = 200 /\ adm[b].res = 200) =>
              /\ {x.id, y.id} \subseteq ConfigIds(CurrentUpstreamConfigs)
              /\ upstreams_file # <<>>
              /\ {x.id, y.id} \subseteq ConfigIds(upstreams_file[1])

\* C40: no step moves the cooldown deadline of a credential state backward,
\* whichever request's breaker event the step is.
C40_DeadlineNeverBack ==
    [][\A k \in DOMAIN ks \cap DOMAIN ks' :
          ks'[k].cooldown_until_ms >= ks[k].cooldown_until_ms]_vars
====
